---- MODULE Spec2Model ----
(***************************************************************************)
(* Model of the ASO deployment engine                                      *)
(* (src/deploy_aso_stack_with_memory.py, ASODeployerWithEnhancedMemory).   *)
(*                                                                         *)
(* The engine walks resource_order, applies every descriptor with          *)
(* `kubectl apply`, polls cluster.yaml and extension.yaml for the Ready    *)
(* condition under a per-kind time budget, appends one entry per resource  *)
(* to deployment_results and returns a verdict that main() turns into the  *)
(* process exit code.  The control plane (kubectl), the descriptor files   *)
(* and the wall clock are the environment: their answers are chosen        *)
(* nondeterministically from small sets.                                   *)
(***************************************************************************)
EXTENDS Integers, Sequences, FiniteSets, TLC

VARIABLES
    pc,                  \* position of the process inside the program that runs
    idx,                 \* 1-based position of the for loop in resource_order / checks
    deployment_results,  \* self.deployment_results
    telemetry,           \* calls of store_issue_immediately / store_success_pattern
    applied,             \* history: positions handed to `kubectl apply -f`, in call order
    apply_returncode,    \* result.returncode of the latest `kubectl apply`
    polled,              \* history: positions for which a status query was issued
    expected_time,       \* monitor local: the resolved timeout
    resource_details,    \* monitor local: sub-resources of the descriptor file
    rd,                  \* monitor local: index of the for loop over resource_details
    last_status,         \* monitor local: last printed status line
    since_start,         \* time.time() - monitor_start
    latency,             \* wall-clock duration of one status query during this poll
    ticks,               \* history: iterations of the while loop started in this poll
    queries,             \* history: status queries issued in this poll
    last_response,       \* history: answer of the latest status query of this poll
    seen_message,        \* history: sub-resource name -> message of its latest status query
    line_printed,        \* history: the latest status query printed a status line
    monitor_success,     \* run local: value returned by the monitor
    hint_printed,        \* history: the latest telemetry query printed its hint line
    success,             \* value returned by run_memory_guided_deployment / run_all_validations
    exit_code,           \* value handed to sys.exit
    results,             \* CertManagerValidator.results
    pod_items,           \* items of the pods answer handed to check_cert_manager_pods called on its own
    issuance,            \* locals of test_certificate_issuance: elapsed time, latest Ready answer, delete calls
    test_results,        \* IstioTestSuite.test_results
    security_findings,   \* IstioTestSuite.security_findings
    report,              \* executive_summary of the report of IstioTestSuite.generate_report
    canary               \* locals of test_canary_routing behind its request loop: version_counts and the expected weights

vars == <<pc, idx, deployment_results, telemetry, applied, apply_returncode, polled, expected_time,
          resource_details, rd, last_status, since_start, latency, ticks, queries,
          last_response, seen_message, line_printed, monitor_success, hint_printed,
          success, exit_code, results, pod_items, issuance, test_results, security_findings,
          report, canary>>

monitor_locals == <<expected_time, resource_details, rd, last_status, since_start,
                    latency, ticks, queries, last_response, seen_message,
                    line_printed, monitor_success>>

\* the state of the deployer
deployer_vars == <<deployment_results, telemetry, applied, apply_returncode, polled,
                   monitor_locals, hint_printed>>

\* the state of the cert-manager validator
validator_vars == <<results, pod_items, issuance>>

\* the state of the Istio test suite
suite_vars == <<test_results, security_findings, report, canary>>

----------------------------------------------------------------------------
(* Bounds of the environment *)

\* longest wall-clock duration of one status query, in seconds
MaxLatency == 1

Latencies == 0..MaxLatency

----------------------------------------------------------------------------
(* Program constants *)

resource_order == <<"resourcegroup.yaml", "identity.yaml", "roleassignment.yaml",
                    "cluster.yaml", "federated.yaml", "extension.yaml",
                    "fluxconfiguration.yaml">>

DefaultTimeout == 300

ClusterTimeout == 1800

ExtensionTimeout == 600

\* a sleep of one minute between the passes
PollInterval_Minute == 2 * 30

PollInterval == 30

None == "None"

\* no status query was issued yet
NoStatus == [returncode |-> -1, faults |-> FALSE, conditions |-> <<>>]

\* resource_file.replace('.yaml', '')
ResourceType(resource_file) ==
    CASE resource_file = "resourcegroup.yaml"     -> "resourcegroup"
      [] resource_file = "identity.yaml"          -> "identity"
      [] resource_file = "roleassignment.yaml"    -> "roleassignment"
      [] resource_file = "cluster.yaml"           -> "cluster"
      [] resource_file = "federated.yaml"         -> "federated"
      [] resource_file = "extension.yaml"         -> "extension"
      [] resource_file = "fluxconfiguration.yaml" -> "fluxconfiguration"
      [] OTHER                                    -> resource_file

\* Monitorable without the list of kinds: every resource is monitored
Monitorable_Always(resource_file) == TRUE

\* resource_file in ["cluster.yaml", "extension.yaml"]
Monitorable(resource_file) == resource_file \in {"cluster.yaml", "extension.yaml"}

\* ExpectedTime without the extension branch
ExpectedTime_NoExtension(resource_type) ==
    IF resource_type = "cluster" THEN ClusterTimeout
    ELSE DefaultTimeout

\* the timeout selection of monitor_with_memory_updates
ExpectedTime(resource_type) ==
    IF resource_type = "cluster" THEN ClusterTimeout
    ELSE IF resource_type = "extension" THEN ExtensionTimeout
    ELSE DefaultTimeout

\* the answer of a telemetry sink that knows nothing
NoEntities == [entities |-> <<>>, relations |-> <<>>]

\* the answers a telemetry sink can give to a query: no entity, or some
QueryAnswers == {NoEntities, [entities |-> <<"e">>, relations |-> <<>>]}

\* query_memory_before_action: the stub answers with no entities
query_memory_before_action(query_pattern) == NoEntities

\* `if memory_results.get("entities"): print(...)`: the only use the engine
\* makes of the answer of a query
HintLine(memory_results) == hint_printed' = (memory_results.entities # <<>>)

----------------------------------------------------------------------------
(* Descriptor files and get_resource_details *)

\* a YAML document of a descriptor file
Doc(kind, name, namespace) ==
    [empty |-> FALSE, kind |-> kind, has_name |-> TRUE, name |-> name,
     namespace |-> namespace]

\* an empty YAML document (safe_load_all yields None for it)
EmptyDoc ==
    [empty |-> TRUE, kind |-> None, has_name |-> FALSE, name |-> None,
     namespace |-> None]

\* a document with a kind but no metadata.name
NamelessDoc ==
    [empty |-> FALSE, kind |-> "ConfigMap", has_name |-> FALSE, name |-> None,
     namespace |-> None]

\* what open() + yaml.safe_load_all can find behind a descriptor path
FileContents ==
    { [readable |-> FALSE, docs |-> <<>>],
      [readable |-> TRUE,  docs |-> <<>>],
      [readable |-> TRUE,  docs |-> <<EmptyDoc>>],
      [readable |-> TRUE,  docs |-> <<Doc(None, "a", None)>>],
      [readable |-> TRUE,  docs |-> <<Doc("ManagedCluster", "a", "azure-system")>>],
      [readable |-> TRUE,  docs |-> <<EmptyDoc, Doc("Extension", "a", None)>>],
      [readable |-> TRUE,  docs |-> <<Doc("ManagedCluster", "a", "azure-system"),
                                      Doc("ManagedClustersAgentPool", "b", "azure-system")>>],
      [readable |-> TRUE,  docs |-> <<Doc("ManagedCluster", "a", "azure-system"),
                                      NamelessDoc>>] }

\* str.lower() on the kinds that occur
Lower(kind) ==
    CASE kind = "ManagedCluster"           -> "managedcluster"
      [] kind = "ManagedClustersAgentPool" -> "managedclustersagentpool"
      [] kind = "Extension"                -> "extension"
      [] kind = "ConfigMap"                -> "configmap"
      [] OTHER                             -> kind

\* `if doc and doc.get('kind')`
HasKind(doc) == ~doc.empty /\ doc.kind # None

\* doc['metadata']['name'] raises for some document that has a kind
DetailsFault(docs) == \E k \in 1..Len(docs) : HasKind(docs[k]) /\ ~docs[k].has_name

RECURSIVE CollectDetails(_)
\* the for loop of get_resource_details over the loaded documents
CollectDetails(docs) ==
    IF docs = <<>> THEN <<>>
    ELSE IF HasKind(Head(docs))
         THEN <<[type      |-> Lower(Head(docs).kind),
                 name      |-> Head(docs).name,
                 namespace |-> IF Head(docs).namespace = None THEN "default"
                               ELSE Head(docs).namespace]>>
              \o CollectDetails(Tail(docs))
         ELSE CollectDetails(Tail(docs))

\* get_resource_details: any exception (unreadable file, missing name) gives []
get_resource_details(content) ==
    IF ~content.readable \/ DetailsFault(content.docs) THEN <<>>
    ELSE CollectDetails(content.docs)

----------------------------------------------------------------------------
(* Status queries and check_resource_status *)

Condition(type, status, message) == [type |-> type, status |-> status, message |-> message]

\* the answers `kubectl get <type> <name> -n <ns> -o yaml` can give:
\* a non-zero return code, output that cannot be processed (or kubectl cannot
\* be started), or a resource with its ordered status conditions
StatusResponses ==
    { [returncode |-> 1, faults |-> FALSE, conditions |-> <<>>],
      [returncode |-> 0, faults |-> TRUE,  conditions |-> <<>>],
      [returncode |-> 0, faults |-> FALSE,
       conditions |-> <<Condition("Synced", "True", "Synced")>>],
      [returncode |-> 0, faults |-> FALSE,
       conditions |-> <<Condition("Synced", "True", "Synced"),
                        Condition("Ready", "False", "Reconciling")>>],
      [returncode |-> 0, faults |-> FALSE,
       conditions |-> <<Condition("Synced", "True", "Synced"),
                        Condition("Ready", "False", "Error: ProvisioningFailed")>>],
      [returncode |-> 0, faults |-> FALSE,
       conditions |-> <<Condition("Synced", "True", "Synced"),
                        Condition("Ready", "True", "Succeeded")>>] }

RECURSIVE FindReady_TypeOnly(_)
\* FindReady that looks at the type of the condition only
FindReady_TypeOnly(conditions) ==
    IF conditions = <<>> THEN <<FALSE, "No Ready condition found">>
    ELSE IF Head(conditions).type = "Ready"
         THEN <<TRUE, Head(conditions).message>>
         ELSE FindReady_TypeOnly(Tail(conditions))

RECURSIVE FindReady(_)
\* the for loop over conditions: the first condition of type Ready decides
FindReady(conditions) ==
    IF conditions = <<>> THEN <<FALSE, "No Ready condition found">>
    ELSE IF Head(conditions).type = "Ready"
         THEN <<Head(conditions).status = "True", Head(conditions).message>>
         ELSE FindReady(Tail(conditions))

\* check_resource_status that compares the status string with the boolean
\* True, so that no condition counts as ready
check_resource_status_BoolCompare(response) ==
    IF response.faults THEN <<FALSE, "Error checking status">>
    ELSE IF response.returncode = 0 THEN <<FALSE, FindReady(response.conditions)[2]>>
    ELSE <<FALSE, "Resource not found">>

\* check_resource_status: (is_ready, message)
check_resource_status(response) ==
    IF response.faults THEN <<FALSE, "Error checking status">>
    ELSE IF response.returncode = 0 THEN FindReady(response.conditions)
    ELSE <<FALSE, "Resource not found">>

\* a status answer whose Ready condition reports an unrecoverable failure
TerminalError(response) ==
    /\ ~response.faults
    /\ response.returncode = 0
    /\ \E k \in 1..Len(response.conditions) :
          /\ response.conditions[k].type = "Ready"
          /\ response.conditions[k].status = "False"
          /\ response.conditions[k].message = "Error: ProvisioningFailed"

\* a status answer that carries a condition of type Ready with status True
ReportsReady(response) ==
    /\ ~response.faults
    /\ response.returncode = 0
    /\ \E k \in 1..Len(response.conditions) :
          response.conditions[k].type = "Ready" /\ response.conditions[k].status = "True"

----------------------------------------------------------------------------
(* State *)

NoExit == -1

\* names of the sub-resources the descriptor files can hold
Names == {"a", "b"}

DeploymentResult(resource_file, deployed, monitored) ==
    [resource |-> resource_file, deployed |-> deployed, monitored |-> monitored]

\* one call of store_issue_immediately(resource_type + suffix, ...)
Issue(resource_type, suffix) ==
    [call |-> "issue", resource_type |-> resource_type, suffix |-> suffix]

\* one call of store_success_pattern(resource_type + suffix, ...)
SuccessPattern(resource_type, suffix) ==
    [call |-> "success", resource_type |-> resource_type, suffix |-> suffix]

\* the locals of monitor_with_memory_updates outside a call of it
MonitorIdle ==
    /\ expected_time = 0
    /\ resource_details = <<>>
    /\ rd = 0
    /\ last_status = <<>>
    /\ since_start = 0
    /\ latency = 0
    /\ ticks = 0
    /\ queries = 0
    /\ last_response = NoStatus
    /\ seen_message = [n \in Names |-> None]
    /\ line_printed = FALSE
    /\ monitor_success = FALSE

\* generate_report was not called yet
NoReport ==
    [overall_status |-> "NONE", total_tests |-> 0, passed_tests |-> 0,
     critical_security_issues |-> 0, risk_level |-> "NONE"]

\* the deployer before its construction has any effect
DeployerIdle ==
    /\ deployment_results = <<>>
    /\ telemetry = <<>>
    /\ applied = <<>>
    /\ apply_returncode = 0
    /\ polled = {}
    /\ MonitorIdle
    /\ hint_printed = FALSE

\* test_canary_routing was not called yet
NoCanary == [v1 |-> 0, v2 |-> 0, expected_v1 |-> 0, expected_v2 |-> 0]

\* CertManagerValidator.__init__: self.results = []
\* no call of test_certificate_issuance is under way
NoIssuance == [created |-> FALSE, elapsed |-> 0, ready |-> FALSE, deletes |-> 0]

ValidatorIdle == results = <<>> /\ pod_items = <<>> /\ issuance = NoIssuance

\* IstioTestSuite.__init__: self.test_results = [], self.security_findings = []
SuiteIdle ==
    /\ test_results = <<>>
    /\ security_findings = <<>>
    /\ report = NoReport
    /\ canary = NoCanary

\* __init__ followed by the entry into main()
Init ==
    /\ pc = "main"
    /\ idx = 0
    /\ deployment_results = <<>>
    /\ telemetry = <<>>
    /\ applied = <<>>
    /\ apply_returncode = 0
    /\ polled = {}
    /\ MonitorIdle
    /\ hint_printed = FALSE
    /\ success = FALSE
    /\ exit_code = NoExit
    /\ ValidatorIdle
    /\ SuiteIdle

\* the end of one iteration of `for resource_file in self.resource_order`
NextResource ==
    /\ idx' = idx + 1
    /\ pc' = IF idx < Len(resource_order) THEN "deploy" ELSE "summary"

\* SuccessCount that also asks for the monitored flag
SuccessCount_Monitored(entries) ==
    Cardinality({k \in 1..Len(entries) : entries[k].deployed /\ entries[k].monitored})

\* sum(1 for r in self.deployment_results if r["deployed"])
SuccessCount(entries) == Cardinality({k \in 1..Len(entries) : entries[k].deployed})

----------------------------------------------------------------------------
(* Steps of main / run_memory_guided_deployment *)

\* main() constructs the deployer and enters run_memory_guided_deployment
RunStartWith(memory_results) ==
    /\ pc = "main"
    /\ idx' = 1
    /\ pc' = "deploy"
    /\ UNCHANGED <<deployment_results, telemetry, applied, apply_returncode, polled, monitor_locals,
                   success, exit_code>>
    /\ UNCHANGED <<hint_printed, validator_vars, suite_vars>>

\* RunStartWith for the answer of the stub
RunStart == RunStartWith(query_memory_before_action("deployment"))

\* DeployOk that leaves the success observation of a monitorable resource
\* to its monitor
DeployOk_DeferredObservation ==
    /\ pc = "deploy"
    /\ applied' = Append(applied, idx)
    /\ apply_returncode' = 0
    /\ IF Monitorable(resource_order[idx])
       THEN /\ pc' = "monitor"
            /\ UNCHANGED <<idx, deployment_results, telemetry>>
       ELSE /\ telemetry' =
                  Append(telemetry,
                         SuccessPattern(ResourceType(resource_order[idx]), ""))
            /\ deployment_results' =
                  Append(deployment_results,
                         DeploymentResult(resource_order[idx], TRUE, TRUE))
            /\ NextResource
    /\ UNCHANGED <<polled, monitor_locals, success, exit_code>>
    /\ HintLine(query_memory_before_action("issues"))
    /\ UNCHANGED <<validator_vars, suite_vars>>

\* DeployOk that does not wait for the poll of a monitorable resource
DeployOk_NoWait ==
    /\ pc = "deploy"
    /\ applied' = Append(applied, idx)
    /\ apply_returncode' = 0
    /\ telemetry' = Append(telemetry,
                           SuccessPattern(ResourceType(resource_order[idx]), ""))
    /\ IF Monitorable(resource_order[idx])
       THEN /\ pc' = "monitor"
            /\ idx' = idx + 1
            /\ UNCHANGED deployment_results
       ELSE /\ deployment_results' =
                  Append(deployment_results,
                         DeploymentResult(resource_order[idx], TRUE, TRUE))
            /\ NextResource
    /\ UNCHANGED <<polled, monitor_locals, success, exit_code>>
    /\ HintLine(query_memory_before_action("issues"))
    /\ UNCHANGED <<validator_vars, suite_vars>>

\* deploy_resource_with_memory returns True: kubectl apply ended with code 0
DeployOkWith(memory_results) ==
    /\ pc = "deploy"
    /\ applied' = Append(applied, idx)
    /\ apply_returncode' = 0
    /\ telemetry' = Append(telemetry,
                           SuccessPattern(ResourceType(resource_order[idx]), ""))
    /\ IF Monitorable(resource_order[idx])
       THEN /\ pc' = "monitor"
            /\ UNCHANGED <<idx, deployment_results>>
       ELSE /\ deployment_results' =
                  Append(deployment_results,
                         DeploymentResult(resource_order[idx], TRUE, TRUE))
            /\ NextResource
    /\ UNCHANGED <<polled, monitor_locals, success, exit_code>>
    /\ UNCHANGED <<validator_vars, suite_vars>>

\* DeployOkWith for the answer of the stub, with the hint line of the answer
DeployOk ==
    LET memory_results == query_memory_before_action("issues")
    IN  DeployOkWith(memory_results) /\ HintLine(memory_results)

\* DeployFail that records the failed resource as monitored
DeployFail_Monitored ==
    /\ pc = "deploy"
    /\ applied' = Append(applied, idx)
    /\ apply_returncode' = 1
    /\ telemetry' = Append(telemetry, Issue(ResourceType(resource_order[idx]), ""))
    /\ deployment_results' =
          Append(deployment_results,
                 DeploymentResult(resource_order[idx], FALSE, TRUE))
    /\ NextResource
    /\ UNCHANGED <<polled, monitor_locals, success, exit_code>>
    /\ HintLine(query_memory_before_action("issues"))
    /\ UNCHANGED <<validator_vars, suite_vars>>

\* DeployFail without the append of the else branch of run
DeployFail_NoRecord ==
    /\ pc = "deploy"
    /\ applied' = Append(applied, idx)
    /\ apply_returncode' = 1
    /\ telemetry' = Append(telemetry, Issue(ResourceType(resource_order[idx]), ""))
    /\ NextResource
    /\ UNCHANGED <<deployment_results, polled, monitor_locals, success, exit_code>>
    /\ HintLine(query_memory_before_action("issues"))
    /\ UNCHANGED <<validator_vars, suite_vars>>

\* DeployFail with a break after the failed resource
DeployFail_Break ==
    /\ pc = "deploy"
    /\ applied' = Append(applied, idx)
    /\ apply_returncode' = 1
    /\ telemetry' = Append(telemetry, Issue(ResourceType(resource_order[idx]), ""))
    /\ deployment_results' =
          Append(deployment_results,
                 DeploymentResult(resource_order[idx], FALSE, FALSE))
    /\ idx' = idx + 1
    /\ pc' = "summary"
    /\ UNCHANGED <<polled, monitor_locals, success, exit_code>>
    /\ HintLine(query_memory_before_action("issues"))
    /\ UNCHANGED <<validator_vars, suite_vars>>

\* deploy_resource_with_memory returns False: kubectl apply ended with a
\* non-zero code
DeployFailWith(memory_results) ==
    /\ pc = "deploy"
    /\ applied' = Append(applied, idx)
    /\ apply_returncode' = 1
    /\ telemetry' = Append(telemetry, Issue(ResourceType(resource_order[idx]), ""))
    /\ deployment_results' =
          Append(deployment_results,
                 DeploymentResult(resource_order[idx], FALSE, FALSE))
    /\ NextResource
    /\ UNCHANGED <<polled, monitor_locals, success, exit_code>>
    /\ UNCHANGED <<validator_vars, suite_vars>>

\* DeployFailWith for the answer of the stub, with the hint line of the answer
DeployFail ==
    LET memory_results == query_memory_before_action("issues")
    IN  DeployFailWith(memory_results) /\ HintLine(memory_results)

\* subprocess.run raises inside run_kubectl_command (kubectl cannot be
\* started, output cannot be decoded): nothing between the call and main()
\* catches it
DeployFaultWith(memory_results) ==
    /\ pc = "deploy"
    /\ pc' = "raised"
    /\ UNCHANGED <<idx, deployment_results, telemetry, applied, apply_returncode, polled,
                   monitor_locals, success, exit_code>>
    /\ UNCHANGED <<validator_vars, suite_vars>>

\* DeployFaultWith for the answer of the stub, with the hint line of the answer
DeployFault ==
    LET memory_results == query_memory_before_action("issues")
    IN  DeployFaultWith(memory_results) /\ HintLine(memory_results)

----------------------------------------------------------------------------
(* Steps of monitor_with_memory_updates *)

\* MonitorStartWith that shortens the timeout to the default when the sink
\* knows previous timing data
MonitorStartWith_MemoryTiming(memory_results) ==
    /\ pc = "monitor"
    /\ expected_time' = IF memory_results.entities # <<>> THEN DefaultTimeout
                        ELSE ExpectedTime(ResourceType(resource_order[idx]))
    /\ \E content \in FileContents, d \in Latencies :
          IF get_resource_details(content) = <<>>
          THEN /\ monitor_success' = TRUE
               /\ pc' = "monitored"
               /\ UNCHANGED <<resource_details, rd, since_start, latency, ticks>>
          ELSE /\ resource_details' = get_resource_details(content)
               /\ latency' = d
               /\ since_start' = 0
               /\ ticks' = 1
               /\ rd' = 1
               /\ pc' = "query"
               /\ UNCHANGED monitor_success
    /\ UNCHANGED <<idx, deployment_results, telemetry, applied, apply_returncode, polled, last_status,
                   queries, last_response, seen_message, line_printed, success,
                   exit_code>>
    /\ UNCHANGED <<validator_vars, suite_vars>>

\* entry of the monitor: resolve the timeout, read the descriptor file and
\* either return True at once (no sub-resource found) or enter the while
\* loop, whose first test 0 < expected_time succeeds
MonitorStartWith(memory_results) ==
    /\ pc = "monitor"
    /\ expected_time' = ExpectedTime(ResourceType(resource_order[idx]))
    /\ \E content \in FileContents, d \in Latencies :
          IF get_resource_details(content) = <<>>
          THEN /\ monitor_success' = TRUE
               /\ pc' = "monitored"
               /\ UNCHANGED <<resource_details, rd, since_start, latency, ticks>>
          ELSE /\ resource_details' = get_resource_details(content)
               /\ latency' = d
               /\ since_start' = 0
               /\ ticks' = 1
               /\ rd' = 1
               /\ pc' = "query"
               /\ UNCHANGED monitor_success
    /\ UNCHANGED <<idx, deployment_results, telemetry, applied, apply_returncode, polled, last_status,
                   queries, last_response, seen_message, line_printed, success,
                   exit_code>>
    /\ UNCHANGED <<validator_vars, suite_vars>>

\* MonitorStartWith for the answer of the stub, with the hint line of the answer
MonitorStart ==
    LET memory_results == query_memory_before_action("provisioning time")
    IN  MonitorStartWith(memory_results) /\ HintLine(memory_results)

\* a status query that ended with a non-zero return code or an exception
QueryFailedEarly(response) == response.faults \/ response.returncode # 0

\* CheckStatus that gives up at the first status query that fails
CheckStatus_FailFast ==
    /\ pc = "query"
    /\ \E response \in StatusResponses :
          LET name           == resource_details[rd].name
              is_ready       == check_resource_status(response)[1]
              message        == check_resource_status(response)[2]
              current_status == <<name, message>>
          IN  /\ last_response' = response
              /\ seen_message' = [seen_message EXCEPT ![name] = message]
              /\ IF is_ready
                 THEN /\ telemetry' =
                            Append(telemetry,
                                   SuccessPattern(ResourceType(resource_order[idx]),
                                                  "-timing"))
                      /\ monitor_success' = TRUE
                      /\ line_printed' = FALSE
                      /\ pc' = "monitored"
                      /\ UNCHANGED <<last_status, rd>>
                 ELSE IF QueryFailedEarly(response)
                 THEN /\ monitor_success' = FALSE
                      /\ line_printed' = FALSE
                      /\ pc' = "monitored"
                      /\ UNCHANGED <<last_status, rd, telemetry>>
                 ELSE /\ line_printed' = (current_status # last_status)
                      /\ last_status' = IF current_status # last_status
                                        THEN current_status ELSE last_status
                      /\ IF rd < Len(resource_details)
                         THEN rd' = rd + 1 /\ pc' = "query"
                         ELSE rd' = rd /\ pc' = "sleep"
                      /\ UNCHANGED <<telemetry, monitor_success>>
    /\ polled' = polled \cup {idx}
    /\ queries' = queries + 1
    /\ since_start' = since_start + latency
    /\ UNCHANGED <<idx, deployment_results, applied, apply_returncode, expected_time, resource_details,
                   latency, ticks, success, exit_code>>
    /\ UNCHANGED <<hint_printed, validator_vars, suite_vars>>

\* one pass of `for rd in resource_details`: a status query, then either the
\* return True of the ready branch or the debounced status line
CheckStatus ==
    /\ pc = "query"
    /\ \E response \in StatusResponses :
          LET name           == resource_details[rd].name
              is_ready       == check_resource_status(response)[1]
              message        == check_resource_status(response)[2]
              current_status == <<name, message>>
          IN  /\ last_response' = response
              /\ seen_message' = [seen_message EXCEPT ![name] = message]
              /\ IF is_ready
                 THEN /\ telemetry' =
                            Append(telemetry,
                                   SuccessPattern(ResourceType(resource_order[idx]),
                                                  "-timing"))
                      /\ monitor_success' = TRUE
                      /\ line_printed' = FALSE
                      /\ pc' = "monitored"
                      /\ UNCHANGED <<last_status, rd>>
                 ELSE /\ line_printed' = (current_status # last_status)
                      /\ last_status' = IF current_status # last_status
                                        THEN current_status ELSE last_status
                      /\ IF rd < Len(resource_details)
                         THEN rd' = rd + 1 /\ pc' = "query"
                         ELSE rd' = rd /\ pc' = "sleep"
                      /\ UNCHANGED <<telemetry, monitor_success>>
    /\ polled' = polled \cup {idx}
    /\ queries' = queries + 1
    /\ since_start' = since_start + latency
    /\ UNCHANGED <<idx, deployment_results, applied, apply_returncode, expected_time, resource_details,
                   latency, ticks, success, exit_code>>
    /\ UNCHANGED <<hint_printed, validator_vars, suite_vars>>

\* Sleep with `<=` in the while condition
Sleep_Inclusive ==
    /\ pc = "sleep"
    /\ since_start' = since_start + PollInterval
    /\ IF since_start + PollInterval <= expected_time
       THEN /\ ticks' = ticks + 1
            /\ rd' = 1
            /\ pc' = "query"
            /\ UNCHANGED <<telemetry, monitor_success>>
       ELSE /\ telemetry' =
                  Append(telemetry,
                         Issue(ResourceType(resource_order[idx]), "-timeout"))
            /\ monitor_success' = FALSE
            /\ pc' = "monitored"
            /\ UNCHANGED <<ticks, rd>>
    /\ UNCHANGED <<idx, deployment_results, applied, apply_returncode, polled, expected_time,
                   resource_details, last_status, latency, queries, last_response,
                   seen_message, line_printed, success, exit_code>>
    /\ UNCHANGED <<hint_printed, validator_vars, suite_vars>>

\* time.sleep(30) followed by the next test of the while condition: another
\* pass over resource_details, or the timeout exit that stores the issue and
\* returns False
Sleep ==
    /\ pc = "sleep"
    /\ since_start' = since_start + PollInterval
    /\ IF since_start + PollInterval < expected_time
       THEN /\ ticks' = ticks + 1
            /\ rd' = 1
            /\ pc' = "query"
            /\ UNCHANGED <<telemetry, monitor_success>>
       ELSE /\ telemetry' =
                  Append(telemetry,
                         Issue(ResourceType(resource_order[idx]), "-timeout"))
            /\ monitor_success' = FALSE
            /\ pc' = "monitored"
            /\ UNCHANGED <<ticks, rd>>
    /\ UNCHANGED <<idx, deployment_results, applied, apply_returncode, polled, expected_time,
                   resource_details, last_status, latency, queries, last_response,
                   seen_message, line_printed, success, exit_code>>
    /\ UNCHANGED <<hint_printed, validator_vars, suite_vars>>

\* the locals of the monitor go out of scope when run has used its result
LeaveMonitor ==
    /\ expected_time' = 0
    /\ resource_details' = <<>>
    /\ rd' = 0
    /\ last_status' = <<>>
    /\ since_start' = 0
    /\ latency' = 0
    /\ ticks' = 0
    /\ queries' = 0
    /\ last_response' = NoStatus
    /\ seen_message' = [n \in Names |-> None]
    /\ line_printed' = FALSE
    /\ monitor_success' = FALSE

\* RecordMonitored that ignores the value the monitor returned
RecordMonitored_AlwaysTrue ==
    /\ pc = "monitored"
    /\ deployment_results' =
          Append(deployment_results,
                 DeploymentResult(resource_order[idx], TRUE, TRUE))
    /\ NextResource
    /\ LeaveMonitor
    /\ UNCHANGED <<telemetry, applied, apply_returncode, polled, success, exit_code>>
    /\ UNCHANGED <<hint_printed, validator_vars, suite_vars>>

\* RecordMonitored that puts the new entry in front of the log
RecordMonitored_Prepend ==
    /\ pc = "monitored"
    /\ deployment_results' =
          <<DeploymentResult(resource_order[idx], TRUE, monitor_success)>>
          \o deployment_results
    /\ NextResource
    /\ LeaveMonitor
    /\ UNCHANGED <<telemetry, applied, apply_returncode, polled, success, exit_code>>
    /\ UNCHANGED <<hint_printed, validator_vars, suite_vars>>

\* back in run: append the entry of a monitored resource
RecordMonitored ==
    /\ pc = "monitored"
    /\ deployment_results' =
          Append(deployment_results,
                 DeploymentResult(resource_order[idx], TRUE, monitor_success))
    /\ NextResource
    /\ LeaveMonitor
    /\ UNCHANGED <<telemetry, applied, apply_returncode, polled, success, exit_code>>
    /\ UNCHANGED <<hint_printed, validator_vars, suite_vars>>

----------------------------------------------------------------------------
(* End of run and of main *)

\* store_deployment_summary and the return value of run
Return ==
    /\ pc = "summary"
    /\ success' = (SuccessCount(deployment_results) = Len(resource_order))
    /\ pc' = "returned"
    /\ UNCHANGED <<idx, deployment_results, telemetry, applied, apply_returncode, polled,
                   monitor_locals, exit_code>>
    /\ UNCHANGED <<hint_printed, validator_vars, suite_vars>>

\* main: return 0 if success else 1, handed to sys.exit
Exit ==
    /\ pc = "returned"
    /\ exit_code' = IF success THEN 0 ELSE 1
    /\ pc' = "exited"
    /\ UNCHANGED <<idx, deployment_results, telemetry, applied, apply_returncode, polled,
                   monitor_locals, success>>
    /\ UNCHANGED <<hint_printed, validator_vars, suite_vars>>

\* an exception that left main ends the interpreter with status 1
Crash ==
    /\ pc = "raised"
    /\ exit_code' = 1
    /\ pc' = "crashed"
    /\ UNCHANGED <<idx, deployment_results, telemetry, applied, apply_returncode, polled,
                   monitor_locals, success>>
    /\ UNCHANGED <<hint_printed, validator_vars, suite_vars>>

Next ==
    \/ RunStart
    \/ DeployOk
    \/ DeployFail
    \/ DeployFault
    \/ MonitorStart
    \/ CheckStatus
    \/ Sleep
    \/ RecordMonitored
    \/ Return
    \/ Exit
    \/ Crash

Spec == Init /\ [][Next]_vars

----------------------------------------------------------------------------
(* Properties of the engine *)

\* run has returned to main
RunReturned == pc \in {"returned", "exited"}

\* the apply of position k was answered with a non-zero return code
ApplyFailed(k) ==
    \E t \in 1..Len(telemetry) :
        telemetry[t] = Issue(ResourceType(resource_order[k]), "")

\* the apply of position k was answered with return code 0
ApplySucceeded(k) ==
    \E t \in 1..Len(telemetry) :
        telemetry[t] = SuccessPattern(ResourceType(resource_order[k]), "")

\* ceil(t / i) for positive i
Ceil(t, i) == (t + i - 1) \div i

\* C1: at every moment the result log holds exactly one entry for each
\* resource handled so far, in the order of resource_order; when run returns
\* the log has one entry for each of the N resources, whatever applies failed
\* and however the polls ended, and an entry is deployed=false/monitored=false
\* exactly when the apply of its resource failed.
C1_OneEntryPerResourceInOrder ==
    /\ Len(deployment_results) <= Len(resource_order)
    /\ \A k \in 1..Len(deployment_results) :
          /\ deployment_results[k].resource = resource_order[k]
          /\ deployment_results[k].deployed = ~ApplyFailed(k)
          /\ ApplyFailed(k) => ~deployment_results[k].monitored
    /\ RunReturned => Len(deployment_results) = Len(resource_order)

\* the scenario of C1: of 7 resources only position 5 failed its apply
C1_Witness ==
    /\ RunReturned
    /\ Len(deployment_results) = 7
    /\ deployment_results[5] = DeploymentResult("federated.yaml", FALSE, FALSE)
    /\ \A k \in (1..7) \ {5} : deployment_results[k].deployed

\* C2: a failed apply appends {deployed: false, monitored: false} for the
\* resource, stores exactly one issue, issues no status query for it, and
\* hands control to the apply of the next resource (or to the end of run
\* after the last one).
C2_ApplyFailureContinues ==
    [][(pc = "deploy" /\ applied' # applied /\ apply_returncode' # 0) =>
          /\ deployment_results' =
                Append(deployment_results,
                       DeploymentResult(resource_order[idx], FALSE, FALSE))
          /\ telemetry' = Append(telemetry, Issue(ResourceType(resource_order[idx]), ""))
          /\ polled' = polled
          /\ idx \notin polled
          /\ idx' = idx + 1
          /\ IF idx < Len(resource_order) THEN pc' = "deploy" ELSE pc' = "summary"]_vars

\* an apply failure at position 2 is followed by the apply of position 3
C2_Witness ==
    /\ Len(applied) >= 3
    /\ applied[3] = 3
    /\ Len(deployment_results) >= 2
    /\ ~deployment_results[2].deployed
    /\ 2 \notin polled

\* C3: the verdict returned by run on a fresh engine is true exactly when
\* every resource of the sequence has deployed=true in the result log; the
\* monitored flags play no part.
C3_VerdictIsAllDeployed ==
    RunReturned =>
        (success <=> \A k \in 1..Len(resource_order) :
                        /\ k <= Len(deployment_results)
                        /\ deployment_results[k].deployed)

\* a run that returned true although a monitored flag is false
C3_Witness ==
    /\ RunReturned
    /\ success
    /\ \E k \in 1..Len(deployment_results) : ~deployment_results[k].monitored

\* C4: the process never exits 0 after a run in which an apply failed or a
\* resource timed out waiting for readiness.
C4_EveryFailureExitsNonZero ==
    (pc = "exited" /\ \E k \in 1..Len(deployment_results) :
                          ~deployment_results[k].deployed
                          \/ ~deployment_results[k].monitored)
    => exit_code # 0

\* C5: run never propagates an exception to its caller.
C5_RunNeverRaises == pc # "raised"

\* the monitor has returned and run has not used its result yet
MonitorReturned == pc = "monitored"

\* the monitor returned False: the while loop ran out of its time budget
TimedOut == MonitorReturned /\ ~monitor_success

\* C6 as stated: a poll that never sees the ready condition ends after
\* exactly ceil(T/I) passes of the loop.
C6_TimeoutAfterExactlyCeilTicks ==
    TimedOut => ticks = Ceil(expected_time, PollInterval)

\* C6 as amended: a poll that never sees the ready condition ends after at
\* least one and at most ceil(T/I) passes of the loop, after exactly
\* ceil(T/I) passes when the status queries take no time, and it returns
\* False with the timeout issue as its last stored observation.
C6_TimeoutAfterAtMostCeilTicks ==
    TimedOut =>
        /\ ticks >= 1
        /\ ticks <= Ceil(expected_time, PollInterval)
        /\ latency = 0 => ticks = Ceil(expected_time, PollInterval)
        /\ since_start >= expected_time
        /\ ~ReportsReady(last_response)
        /\ telemetry # <<>>
        /\ telemetry[Len(telemetry)] =
              Issue(ResourceType(resource_order[idx]), "-timeout")

\* a cluster poll with instantaneous queries that timed out after 60 passes
C6_Witness ==
    /\ TimedOut
    /\ expected_time = 1800
    /\ latency = 0
    /\ ticks = 60

\* C7: the status query that shows a Ready condition with status True ends
\* the poll in the same step with the result True; between the return of the
\* monitor and the next resource no status query and no sleep happens.
C7_ReadyReturnsImmediately ==
    [][/\ (pc = "query" /\ queries' = queries + 1 /\ ReportsReady(last_response'))
            => (MonitorReturned' /\ monitor_success' /\ ticks' = ticks)
       /\ MonitorReturned
            => (polled' = polled /\ queries' = 0 /\ pc' \in {"deploy", "summary"})]_vars

\* readiness seen on a pass before the last one, on the first of two
\* sub-resources
C7_Witness ==
    /\ MonitorReturned
    /\ monitor_success
    /\ ReportsReady(last_response)
    /\ ticks > 1
    /\ ticks < Ceil(expected_time, PollInterval)
    /\ Len(resource_details) = 2
    /\ rd = 1

\* C8: status queries are issued only for cluster.yaml and extension.yaml and
\* only after their apply returned 0.
C8_OnlyAppliedMonitorablePolled ==
    /\ \A k \in polled :
          /\ resource_order[k] \in {"cluster.yaml", "extension.yaml"}
          /\ ApplySucceeded(k)
          /\ ~ApplyFailed(k)
    /\ pc \in {"monitor", "query", "sleep", "monitored"} =>
          /\ resource_order[idx] \in {"cluster.yaml", "extension.yaml"}
          /\ apply_returncode = 0

\* the cluster was polled, the extension failed its apply and was not
C8_Witness ==
    /\ RunReturned
    /\ 4 \in polled
    /\ ~deployment_results[6].deployed
    /\ 6 \notin polled
    /\ deployment_results[5].deployed

\* C9: a successfully applied resource that is not monitorable is recorded
\* with monitored=true without any status query; a monitorable one is polled
\* with 1800 s (cluster) or 600 s (extension) and recorded with the value the
\* monitor returned.
C9_MonitoredFlagIsPollResult ==
    /\ [](\A k \in 1..Len(deployment_results) :
             (/\ deployment_results[k].deployed
              /\ resource_order[k] \notin {"cluster.yaml", "extension.yaml"})
             => (deployment_results[k].monitored /\ k \notin polled))
    /\ [](pc \in {"query", "sleep", "monitored"} =>
             expected_time = IF resource_order[idx] = "cluster.yaml" THEN 1800 ELSE 600)
    /\ [][MonitorReturned =>
             deployment_results' =
                Append(deployment_results,
                       DeploymentResult(resource_order[idx], TRUE, monitor_success))]_vars

\* the cluster poll returned False and was recorded so; its predecessor was
\* recorded monitored without a poll
C9_Witness ==
    /\ Len(deployment_results) >= 4
    /\ deployment_results[4] = DeploymentResult("cluster.yaml", TRUE, FALSE)
    /\ deployment_results[3] = DeploymentResult("roleassignment.yaml", TRUE, TRUE)
    /\ 3 \notin polled

\* C10: a status line is printed for a sub-resource only when its message
\* differs from the message the same sub-resource reported at its previous
\* status query.
C10_DebouncePerResource ==
    [][(pc = "query" /\ line_printed') =>
          seen_message'[resource_details[rd].name] # seen_message[resource_details[rd].name]]_vars

\* C11: a status query whose answer carries a terminal error ends the poll in
\* the same step with the result False; no further status query follows.
C11_TerminalErrorStopsPoll ==
    [][(pc = "query" /\ queries' = queries + 1 /\ TerminalError(last_response'))
          => (MonitorReturned' /\ ~monitor_success')]_vars

\* the monitor returned True without a status query: the descriptor file gave
\* no sub-resource
DegradedSuccess == MonitorReturned /\ monitor_success /\ resource_details = <<>>

\* C12: a poll over zero sub-resources returns True without a status query,
\* and what run records for it differs from what it records for a resource
\* that was seen Ready.
C12_DegradedSuccessIsDistinguishable ==
    [][DegradedSuccess =>
          /\ queries = 0
          /\ deployment_results' #
                Append(deployment_results,
                       DeploymentResult(resource_order[idx], TRUE, TRUE))]_vars

\* C13 as stated: whenever the monitor returns True, a status query of that
\* poll returned a Ready condition with status True.
C13_TrueOnlyAfterReady ==
    (MonitorReturned /\ monitor_success) => ReportsReady(last_response)

\* C13 as amended: whenever the monitor returns True, either the descriptor
\* file gave no sub-resource and no status query was issued, or the latest
\* status query returned a Ready condition with status True.
C13_TrueOnlyAfterReadyOrNoDetails ==
    (MonitorReturned /\ monitor_success) =>
        \/ resource_details = <<>> /\ queries = 0
        \/ queries > 0 /\ ReportsReady(last_response)

\* the monitor returned True after queries that were not ready at first
C13_Witness ==
    /\ MonitorReturned
    /\ monitor_success
    /\ queries > 1
    /\ ReportsReady(last_response)

\* a status query that failed: non-zero return code, or an exception inside
\* check_resource_status
QueryFailed(response) == response.faults \/ response.returncode # 0

\* C14: a failing status query neither ends the poll nor raises: the monitor
\* stays in its loop (next sub-resource or sleep), stores no observation, and
\* the message is the one of the failure.
C14_FailedQueryIsNotTerminal ==
    [][(pc = "query" /\ queries' = queries + 1 /\ QueryFailed(last_response')) =>
          /\ pc' \in {"query", "sleep"}
          /\ pc' = "query" => rd' = rd + 1
          /\ telemetry' = telemetry
          /\ monitor_success' = monitor_success
          /\ seen_message'[resource_details[rd].name] \in
                {"Resource not found", "Error checking status"}]_vars

\* a poll of one sub-resource returned True after a query that failed
C14_Witness ==
    /\ MonitorReturned
    /\ monitor_success
    /\ ReportsReady(last_response)
    /\ Len(resource_details) = 1
    /\ last_status \in {<<"a", "Resource not found">>, <<"a", "Error checking status">>}

----------------------------------------------------------------------------
(* monitor_with_memory_updates called on its own, for any descriptor file *)

\* a fresh deployer on which monitor_with_memory_updates(resource_file) is
\* called directly with one of the files of resource_order
InitMonitor ==
    /\ pc = "monitor"
    /\ idx \in 1..Len(resource_order)
    /\ deployment_results = <<>>
    /\ telemetry = <<>>
    /\ applied = <<>>
    /\ apply_returncode = 0
    /\ polled = {}
    /\ MonitorIdle
    /\ hint_printed = FALSE
    /\ success = FALSE
    /\ exit_code = NoExit
    /\ ValidatorIdle
    /\ SuiteIdle

NextMonitor ==
    \/ MonitorStart
    \/ CheckStatus
    \/ Sleep

SpecMonitor == InitMonitor /\ [][NextMonitor]_vars

\* C15: the timeout is a function of the kind alone: 1800 for cluster, 600
\* for extension, 300 for every other kind; resolving it always succeeds and
\* changes nothing but the locals of the monitor.
C15_TimeoutResolution ==
    /\ [](pc \in {"query", "sleep", "monitored"} =>
             expected_time = CASE resource_order[idx] = "cluster.yaml"   -> 1800
                               [] resource_order[idx] = "extension.yaml" -> 600
                               [] OTHER                                  -> 300)
    /\ [][pc = "monitor" =>
             /\ pc' \in {"query", "monitored"}
             /\ UNCHANGED <<idx, deployment_results, telemetry, applied,
                            apply_returncode, polled, success, exit_code>>]_vars

\* a poll of a kind without override that ran into its default budget
C15_Witness ==
    /\ resource_order[idx] = "identity.yaml"
    /\ TimedOut
    /\ expected_time = 300
    /\ since_start >= 300

\* C16 as stated: a cluster poll that never sees Ready issues exactly 60
\* status queries before it returns False.
C16_ExactlySixtyQueries ==
    (TimedOut /\ expected_time = 1800) => queries = 60

\* C16 as amended: a cluster poll that never sees Ready issues one status
\* query per sub-resource in each of at most 60 passes of the loop, and
\* exactly 60 status queries when the file holds one sub-resource and the
\* queries take no time.
C16_SixtyQueriesPerSubResource ==
    (TimedOut /\ expected_time = 1800) =>
        /\ queries = ticks * Len(resource_details)
        /\ ticks <= 60
        /\ (latency = 0 /\ Len(resource_details) = 1) => queries = 60

\* a cluster poll over two sub-resources that timed out after 120 queries
C16_Witness ==
    /\ TimedOut
    /\ expected_time = 1800
    /\ Len(resource_details) = 2
    /\ queries = 120

----------------------------------------------------------------------------
(* The cert-manager validator (src/apps/cert-manager/validate-cert-manager.py) *)

\* most pods in the answer of `kubectl get pods`
MaxPods == 3

\* most ClusterIssuers in the answer of `kubectl get clusterissuer`
MaxIssuers == 3

\* all sequences over S of length at most n
SeqsUpTo(S, n) == UNION {[1..k -> S] : k \in 0..n}

\* the registry of run_all_validations, in call order
checks == <<"CRDs Installation", "Pod Status", "Workload Identity", "ClusterIssuers",
            "Azure DNS Permissions">>

\* one tuple (check_name, success) of self.results
Recorded(name, ok) == [name |-> name, success |-> ok]

\* what a check method did: the tuples it appended and whether it raised
CheckEffect(appended, raised) == [appended |-> appended, raised |-> raised]

\* the ways run_kubectl / run_az can end without output: subprocess.run
\* raises something else than CalledProcessError (the exception leaves the
\* check), or CalledProcessError is caught and None is returned
CommandEnds == {"raises", "fails"}

\* the effect of a check whose command ended without output
NoOutput(ending) ==
    IF ending = "raises" THEN CheckEffect(<<>>, TRUE) ELSE CheckEffect(<<>>, FALSE)

required_crds == <<"certificates.cert-manager.io", "certificaterequests.cert-manager.io",
                   "issuers.cert-manager.io", "clusterissuers.cert-manager.io",
                   "challenges.acme.cert-manager.io", "orders.acme.cert-manager.io">>

\* the sets of CRD names `kubectl get crd` can list
CrdListings == SUBSET {required_crds[k] : k \in 1..Len(required_crds)}

\* `crd in result.stdout` is a substring test on the whole listing
InListing(crd, listing) ==
    \E line \in listing :
        \/ line = crd
        \/ crd = "issuers.cert-manager.io" /\ line = "clusterissuers.cert-manager.io"

\* check_crds_installed on a listing
check_crds_installed(listing) ==
    LET missing == {k \in 1..Len(required_crds) : ~InListing(required_crds[k], listing)}
    IN  CheckEffect(<<Recorded("CRDs Installed", missing = {})>>, FALSE)

expected_pods == <<"cert-manager", "cert-manager-webhook", "cert-manager-cainjector">>

\* a pod of the answer; has_phase is false when pod["status"]["phase"] is absent
Pod(name, phase, has_phase) == [name |-> name, phase |-> phase, has_phase |-> has_phase]

Pods ==
    { Pod(n, ph, TRUE) : n \in {"cert-manager-7d9f", "cert-manager-webhook-5c8",
                                "cert-manager-cainjector-6b4", "coredns-1"},
                         ph \in {"Running", "Pending"} }
    \cup { Pod("cert-manager-7d9f", None, FALSE) }

\* `expected in name` on the pod names that occur
ExpectedInName(expected, name) ==
    \/ expected = "cert-manager"
          /\ name \in {"cert-manager-7d9f", "cert-manager-webhook-5c8",
                       "cert-manager-cainjector-6b4"}
    \/ expected = "cert-manager-webhook" /\ name = "cert-manager-webhook-5c8"
    \/ expected = "cert-manager-cainjector" /\ name = "cert-manager-cainjector-6b4"

\* the entries one pod adds to running_pods
RunningOf(pod) ==
    SelectSeq(expected_pods,
              LAMBDA expected : ExpectedInName(expected, pod.name) /\ pod.phase = "Running")

RECURSIVE RunningPods(_)
\* running_pods after the loop over the pods
RunningPods(pods) ==
    IF pods = <<>> THEN <<>>
    ELSE RunningOf(Head(pods)) \o RunningPods(Tail(pods))

\* check_cert_manager_pods on an answer: its output is JSON or not, and holds
\* the items `pods`
check_cert_manager_pods(is_json, pods) ==
    IF ~is_json THEN CheckEffect(<<>>, FALSE)
    ELSE IF \E k \in 1..Len(pods) : ~pods[k].has_phase THEN CheckEffect(<<>>, TRUE)
    ELSE CheckEffect(<<Recorded("Cert-Manager Pods", Len(RunningPods(pods)) >= 3)>>, FALSE)

client_id == "1317ba0a-60d3-4f05-b41e-483ed1d6acb3"

\* check_workload_identity on the annotation and the label of the service account
check_workload_identity(is_json, client_id_annotation, workload_label) ==
    IF ~is_json THEN CheckEffect(<<>>, FALSE)
    ELSE IF client_id_annotation # client_id THEN CheckEffect(<<>>, FALSE)
    ELSE IF workload_label # "true" THEN CheckEffect(<<>>, FALSE)
    ELSE CheckEffect(<<Recorded("Workload Identity Config", TRUE)>>, FALSE)

\* a ClusterIssuer of the answer; well_formed is false when one of its
\* conditions lacks the key "type"
Issuer(conditions, well_formed) == [conditions |-> conditions, well_formed |-> well_formed]

Issuers ==
    { Issuer(<<Condition("Ready", "True", "registered")>>, TRUE),
      Issuer(<<Condition("Ready", "False", "pending")>>, TRUE),
      Issuer(<<>>, TRUE),
      Issuer(<<>>, FALSE) }

\* the inner loop of check_clusterissuers: some condition is Ready / True
IssuerReady(issuer) ==
    \E k \in 1..Len(issuer.conditions) :
        issuer.conditions[k].type = "Ready" /\ issuer.conditions[k].status = "True"

\* check_clusterissuers on an answer
check_clusterissuers(is_json, issuers) ==
    IF ~is_json THEN CheckEffect(<<>>, FALSE)
    ELSE IF \E k \in 1..Len(issuers) : ~issuers[k].well_formed THEN CheckEffect(<<>>, TRUE)
    ELSE CheckEffect(<<Recorded("ClusterIssuers Ready",
                                Len(SelectSeq(issuers, IssuerReady)) >= 2)>>, FALSE)

\* check_azure_permissions on the answer of az (any record list passes)
check_azure_permissions(is_json) ==
    IF ~is_json THEN CheckEffect(<<>>, FALSE)
    ELSE CheckEffect(<<Recorded("Azure DNS Permissions", TRUE)>>, FALSE)

\* sum(1 for _, success in self.results if success)
Passed(entries) == Len(SelectSeq(entries, LAMBDA e : e.success))

\* generate_summary that is content with one passed check
generate_summary_Any(entries) == Passed(entries) > 0

\* generate_summary: passed == total
generate_summary(entries) == Passed(entries) = Len(entries)

\* the validator right after construction, at the first check of the registry
InitValidator ==
    /\ pc = "checks"
    /\ idx = 1
    /\ success = FALSE
    /\ exit_code = NoExit
    /\ DeployerIdle
    /\ ValidatorIdle
    /\ SuiteIdle

\* one iteration of the for loop of run_all_validations: the check ran with
\* `effect`; an exception is caught and recorded under the registry name
RunCheck(effect) ==
    /\ results' = results \o effect.appended
                  \o (IF effect.raised THEN <<Recorded(checks[idx], FALSE)>> ELSE <<>>)
    /\ idx' = idx + 1
    /\ pc' = IF idx < Len(checks) THEN "checks" ELSE "summary"
    /\ UNCHANGED <<success, exit_code, pod_items, issuance, deployer_vars, suite_vars>>

\* check_crds_installed as called by run_all_validations
CheckCrdsInstalled ==
    /\ pc = "checks"
    /\ checks[idx] = "CRDs Installation"
    /\ \/ \E ending \in CommandEnds : RunCheck(NoOutput(ending))
       \/ \E listing \in CrdListings : RunCheck(check_crds_installed(listing))

\* check_cert_manager_pods as called by run_all_validations
CheckCertManagerPods ==
    /\ pc = "checks"
    /\ checks[idx] = "Pod Status"
    /\ \/ \E ending \in CommandEnds : RunCheck(NoOutput(ending))
       \/ RunCheck(check_cert_manager_pods(FALSE, <<>>))
       \/ \E pods \in SeqsUpTo(Pods, MaxPods) : RunCheck(check_cert_manager_pods(TRUE, pods))

\* check_workload_identity as called by run_all_validations
CheckWorkloadIdentity ==
    /\ pc = "checks"
    /\ checks[idx] = "Workload Identity"
    /\ \/ \E ending \in CommandEnds : RunCheck(NoOutput(ending))
       \/ RunCheck(check_workload_identity(FALSE, None, None))
       \/ \E annotation \in {client_id, "other-client", None},
             label \in {"true", "false", None} :
             RunCheck(check_workload_identity(TRUE, annotation, label))

\* check_clusterissuers as called by run_all_validations
CheckClusterIssuers ==
    /\ pc = "checks"
    /\ checks[idx] = "ClusterIssuers"
    /\ \/ \E ending \in CommandEnds : RunCheck(NoOutput(ending))
       \/ RunCheck(check_clusterissuers(FALSE, <<>>))
       \/ \E issuers \in SeqsUpTo(Issuers, MaxIssuers) :
             RunCheck(check_clusterissuers(TRUE, issuers))

\* check_azure_permissions as called by run_all_validations
CheckAzurePermissions ==
    /\ pc = "checks"
    /\ checks[idx] = "Azure DNS Permissions"
    /\ \/ \E ending \in CommandEnds : RunCheck(NoOutput(ending))
       \/ \E is_json \in BOOLEAN : RunCheck(check_azure_permissions(is_json))

\* return self.generate_summary()
Summarize ==
    /\ pc = "summary"
    /\ success' = generate_summary(results)
    /\ pc' = "validated"
    /\ UNCHANGED <<idx, exit_code, validator_vars, deployer_vars, suite_vars>>

\* sys.exit(0 if success else 1)
ExitValidator ==
    /\ pc = "validated"
    /\ exit_code' = IF success THEN 0 ELSE 1
    /\ pc' = "exited"
    /\ UNCHANGED <<idx, success, validator_vars, deployer_vars, suite_vars>>

NextValidator ==
    \/ CheckCrdsInstalled
    \/ CheckCertManagerPods
    \/ CheckWorkloadIdentity
    \/ CheckClusterIssuers
    \/ CheckAzurePermissions
    \/ Summarize
    \/ ExitValidator

SpecValidator == InitValidator /\ [][NextValidator]_vars

\* generate_summary has returned
Validated == pc \in {"validated", "exited"}

\* C17: the summary of the validator is true when every recorded outcome is
\* a success and false as soon as one recorded outcome is a failure.
C17_UnanimousSummary ==
    Validated =>
        /\ (\A k \in 1..Len(results) : results[k].success) => success
        /\ (\E k \in 1..Len(results) : ~results[k].success) => ~success

\* five recorded outcomes, four of them successes: the summary is false
C17_Witness ==
    /\ Validated
    /\ Len(results) = 5
    /\ Cardinality({k \in 1..5 : results[k].success}) = 4
    /\ ~success

\* C18: when no outcome was recorded the summary is false.
C18_EmptySummaryIsFalse ==
    (Validated /\ results = <<>>) => ~success

\* ------------------------------------------------------------------------
\* IstioTestSuite: the outcome store and generate_report
\* ------------------------------------------------------------------------

\* the most outcomes one suite stores
MaxTests == 5

\* the most security findings one suite stores
MaxFindings == 3

\* the severity strings calculate_risk_level has a weight for
Severities == {"CRITICAL", "HIGH", "MEDIUM", "LOW"}

\* the severity strings store_security_finding is handed: the four known
\* ones and one that calculate_risk_level has no weight for
SeverityInputs == Severities \cup {"INFO"}

\* severity_weights.get(severity, 0)
severity_weights(severity) ==
    CASE severity = "CRITICAL" -> 40
      [] severity = "HIGH"     -> 20
      [] severity = "MEDIUM"   -> 10
      [] severity = "LOW"      -> 5
      [] OTHER                 -> 0

RECURSIVE risk_score(_)
\* the for loop of calculate_risk_level over the findings
risk_score(findings) ==
    IF findings = <<>> THEN 0
    ELSE severity_weights(Head(findings).severity) + risk_score(Tail(findings))

\* calculate_risk_level with `>` in place of `>=` at the thresholds
calculate_risk_level_Strict(findings) ==
    IF risk_score(findings) > 100 THEN "CRITICAL"
    ELSE IF risk_score(findings) > 60 THEN "HIGH"
    ELSE IF risk_score(findings) > 30 THEN "MEDIUM"
    ELSE "LOW"

\* calculate_risk_level
calculate_risk_level(findings) ==
    IF risk_score(findings) >= 100 THEN "CRITICAL"
    ELSE IF risk_score(findings) >= 60 THEN "HIGH"
    ELSE IF risk_score(findings) >= 30 THEN "MEDIUM"
    ELSE "LOW"

\* the test names and finding types store_test_result and
\* store_security_finding are handed when they are called on their own
ApiTestNames == {"external_services"}

ApiFindingTypes == {"mtls_not_strict"}

\* the entry store_test_result appends (timestamp and details are not read
\* by the executive summary)
TestResult(test_name, passed) == [test |-> test_name, passed |-> passed]

\* the descriptions of the two findings the test methods store
NoPoliciesIn(namespace) == "No authorization policies found in namespace " \o namespace

MtlsNotStrict == "mTLS is not configured in STRICT mode"

\* the entry store_security_finding appends
Finding(severity, finding_type, description) ==
    [severity |-> severity, type |-> finding_type, description |-> description]

\* sum(1 for t in self.test_results if t["passed"])
PassedTests(tests) == Cardinality({k \in 1..Len(tests) : tests[k].passed})

\* [f for f in self.security_findings if f["severity"] == "CRITICAL"]
critical_findings(findings) ==
    {k \in 1..Len(findings) : findings[k].severity = "CRITICAL"}

\* pass_rate >= 80, where pass_rate = passed / total * 100 if total > 0
\* else 0: the float comparison agrees with the exact one for every total
\* below 2000
PassRateAtLeast80(passed, total) ==
    /\ total > 0
    /\ passed * 100 >= 80 * total

\* generate_report with the comparison of the pass rate alone
generate_report_NoVeto(tests, findings) ==
    [overall_status |-> IF PassRateAtLeast80(PassedTests(tests), Len(tests))
                        THEN "PASS" ELSE "FAIL",
     total_tests |-> Len(tests),
     passed_tests |-> PassedTests(tests),
     critical_security_issues |-> Cardinality(critical_findings(findings)),
     risk_level |-> calculate_risk_level(findings)]

\* the executive_summary of generate_report
generate_report(tests, findings) ==
    [overall_status |-> IF /\ PassRateAtLeast80(PassedTests(tests), Len(tests))
                           /\ Cardinality(critical_findings(findings)) = 0
                        THEN "PASS" ELSE "FAIL",
     total_tests |-> Len(tests),
     passed_tests |-> PassedTests(tests),
     critical_security_issues |-> Cardinality(critical_findings(findings)),
     risk_level |-> calculate_risk_level(findings)]

\* the suite right after construction
InitReport ==
    /\ pc = "suite"
    /\ idx = 0
    /\ success = FALSE
    /\ exit_code = NoExit
    /\ DeployerIdle
    /\ ValidatorIdle
    /\ SuiteIdle

\* store_test_result(test_name, passed, details)
StoreTestResult ==
    /\ pc = "suite"
    /\ Len(test_results) < MaxTests
    /\ \E test_name \in ApiTestNames, passed \in BOOLEAN :
          test_results' = Append(test_results, TestResult(test_name, passed))
    /\ UNCHANGED <<pc, idx, success, exit_code, security_findings, report, canary,
                   deployer_vars, validator_vars>>

\* store_security_finding(severity, finding_type, description, remediation)
StoreSecurityFinding ==
    /\ pc = "suite"
    /\ Len(security_findings) < MaxFindings
    /\ \E severity \in SeverityInputs, finding_type \in ApiFindingTypes :
          security_findings' = Append(security_findings,
                                      Finding(severity, finding_type, MtlsNotStrict))
    /\ UNCHANGED <<pc, idx, success, exit_code, test_results, report, canary,
                   deployer_vars, validator_vars>>

\* report = self.generate_report() at the end of run_all_tests
GenerateReport ==
    /\ pc = "suite"
    /\ report' = generate_report(test_results, security_findings)
    /\ pc' = "reported"
    /\ UNCHANGED <<idx, success, exit_code, test_results, security_findings, canary,
                   deployer_vars, validator_vars>>

\* sys.exit(0) if overall_status == "PASS" else sys.exit(1)
ExitReport ==
    /\ pc = "reported"
    /\ exit_code' = IF report.overall_status = "PASS" THEN 0 ELSE 1
    /\ pc' = "exited"
    /\ UNCHANGED <<idx, success, suite_vars, deployer_vars, validator_vars>>

NextReport ==
    \/ StoreTestResult
    \/ StoreSecurityFinding
    \/ GenerateReport
    \/ ExitReport

SpecReport == InitReport /\ [][NextReport]_vars

\* generate_report has returned
Reported == report # NoReport

\* C19: the report is PASS exactly when at least 80% of the stored outcomes
\* passed and no stored finding has the severity CRITICAL.
C19_PassIffThresholdAndNoCritical ==
    Reported =>
        (report.overall_status = "PASS"
            <=> /\ Len(test_results) > 0
                /\ 5 * PassedTests(test_results) >= 4 * Len(test_results)
                /\ \A k \in 1..Len(security_findings) :
                      security_findings[k].severity # "CRITICAL")

\* five outcomes with four passed and one CRITICAL finding: the report is FAIL
C19_Witness ==
    /\ Reported
    /\ Len(test_results) = 5
    /\ PassedTests(test_results) = 4
    /\ \E k \in 1..Len(security_findings) :
          security_findings[k].severity = "CRITICAL"
    /\ report.overall_status = "FAIL"

\* five outcomes with four passed and no CRITICAL finding: the report is PASS
C19_PassWitness ==
    /\ Reported
    /\ Len(test_results) = 5
    /\ PassedTests(test_results) = 4
    /\ report.overall_status = "PASS"

\* the deployment sequence has stopped, by a return of run or by a fault
RunStopped == pc \in {"returned", "exited", "raised", "crashed"}

\* C20: a fault inside one resource step is recorded as the failed outcome
\* of that step and the remaining steps still run: whenever the deployment
\* sequence has stopped, every resource of resource_order has its outcome.
C20_FaultIsRecordedAndSequenceContinues ==
    RunStopped => Len(deployment_results) = Len(resource_order)

\* the process has ended, with the exit code handed to sys.exit or with the
\* status the interpreter gives to an uncaught exception
ProcessEnded == pc \in {"exited", "crashed"}

\* an exception left a resource step of the run
FaultEscaped == pc \in {"raised", "crashed"}

\* C21: the exit code is 0 exactly on full success, 1 when a resource
\* failed, and 2 when an exception escaped a step; in the last case the step
\* is recorded as failed and the remaining steps still run.
C21_ExitCodes ==
    ProcessEnded =>
        /\ exit_code = 0 <=>
              (~FaultEscaped /\ \A k \in 1..Len(resource_order) :
                                   /\ k <= Len(deployment_results)
                                   /\ deployment_results[k].deployed)
        /\ exit_code = 2 <=> FaultEscaped
        /\ exit_code = 1 <=>
              (~FaultEscaped /\ \E k \in 1..Len(deployment_results) :
                                   ~deployment_results[k].deployed)
        /\ FaultEscaped => Len(deployment_results) = Len(resource_order)

\* a step that hands a descriptor to `kubectl apply`
ApplyStarts == applied' # applied

\* C22: the applies happen one after the other in the order of
\* resource_order; an apply starts only when every resource applied before
\* it has its entry in the result log (its apply and its poll are over), and
\* the only resource that is polled is the one applied last.
C22_StrictlySequential ==
    /\ [](\A k \in 1..Len(applied) : k > 1 => applied[k] > applied[k - 1])
    /\ [](pc \in {"monitor", "query", "sleep", "monitored"} =>
             /\ applied # <<>>
             /\ applied[Len(applied)] = idx
             /\ Len(deployment_results) = idx - 1)
    /\ [][ApplyStarts =>
             /\ pc = "deploy"
             /\ applied' = Append(applied, idx)
             /\ Len(deployment_results) = idx - 1
             /\ \A k \in 1..Len(applied) : applied[k] < idx]_vars
    /\ [][polled' # polled => polled' = polled \cup {applied[Len(applied)]}]_vars

\* the apply of the extension started after the cluster poll had timed out
C22_Witness ==
    /\ Len(applied) >= 6
    /\ applied[6] = 6
    /\ 4 \in polled
    /\ deployment_results[4] = DeploymentResult("cluster.yaml", TRUE, FALSE)
    /\ pc = "monitor"

\* the number of times position k was handed to `kubectl apply`
ApplyCount(k) == Cardinality({a \in 1..Len(applied) : applied[a] = k})

\* the number of entries of the result log for position k
ResultCount(k) ==
    Cardinality({e \in 1..Len(deployment_results) :
                    deployment_results[e].resource = resource_order[k]})

\* C23: no resource is applied twice and none has two entries in the result
\* log; when the run has stopped every resource of resource_order has been
\* applied exactly once.
C23_EveryResourceAppliedOnce ==
    /\ \A k \in 1..Len(resource_order) : ApplyCount(k) <= 1 /\ ResultCount(k) <= 1
    /\ RunStopped => \A k \in 1..Len(resource_order) : ApplyCount(k) = 1

\* no resource is applied twice or recorded twice, and a run that returned
\* has applied every resource once
NoRetryNoSkipOnReturn ==
    /\ \A k \in 1..Len(resource_order) : ApplyCount(k) <= 1 /\ ResultCount(k) <= 1
    /\ RunReturned => \A k \in 1..Len(resource_order) : ApplyCount(k) = 1

\* C24: every step leaves the result log unchanged or appends one entry at
\* its end; no entry is removed, moved or modified.
C24_LogOnlyGrows ==
    [][\/ deployment_results' = deployment_results
       \/ /\ Len(deployment_results') = Len(deployment_results) + 1
          /\ SubSeq(deployment_results', 1, Len(deployment_results)) = deployment_results]_vars

\* the entry of the polled cluster was appended behind three older entries
\* of which one records a failed apply
C24_Witness ==
    /\ Len(deployment_results) = 4
    /\ deployment_results[4].resource = "cluster.yaml"
    /\ ~deployment_results[2].deployed
    /\ deployment_results[1].deployed

\* the observations stored for position k: calls of store_success_pattern
\* and store_issue_immediately with its resource type, with or without suffix
Observations(k) ==
    {t \in 1..Len(telemetry) : telemetry[t].resource_type = ResourceType(resource_order[k])}

\* the observations stored for position k by the monitor
PollObservations(k) == {t \in Observations(k) : telemetry[t].suffix # ""}

\* the step of position k is over: the loop went on, or an exception left it
StepOver(k) == k < idx \/ (k = idx /\ FaultEscaped)

\* C25: every resource whose step is over has at least one and at most two
\* stored observations: one for its apply and at most one for its poll.
C25_OneOrTwoObservations ==
    \A k \in 1..Len(resource_order) :
        /\ Cardinality(PollObservations(k)) <= 1
        /\ Cardinality(Observations(k) \ PollObservations(k)) <= 1
        /\ StepOver(k) => Cardinality(Observations(k)) \in 1..2

\* the same for the resources whose step ended with an entry in the log
ObservationsOfRecorded ==
    \A k \in 1..Len(deployment_results) :
        /\ Cardinality(Observations(k) \ PollObservations(k)) = 1
        /\ Cardinality(PollObservations(k)) <= 1
        /\ k \notin polled => PollObservations(k) = {}

\* C26 as stated: every apply is followed at once by a stored success
\* observation for its resource.
C26_SuccessObservationAfterEachApply ==
    \A a \in 1..Len(applied) : ApplySucceeded(applied[a])

\* C26 as amended: an apply that returned 0 stores the success observation
\* of its resource in the same step, before the monitor is entered (a failed
\* apply stores an issue instead); no step of the monitor removes it, and it
\* is in the sink when the entry of the resource is appended, whether the
\* monitor returned True or False.
C26_SuccessObservationBeforePolling ==
    /\ [][(ApplyStarts /\ apply_returncode' = 0) =>
             /\ telemetry' = Append(telemetry,
                                    SuccessPattern(ResourceType(resource_order[idx]), ""))
             /\ idx \notin polled
             /\ queries = 0]_vars
    /\ [][(ApplyStarts /\ apply_returncode' # 0) =>
             telemetry' = Append(telemetry, Issue(ResourceType(resource_order[idx]), ""))]_vars
    /\ [](pc \in {"monitor", "query", "sleep", "monitored"} => ApplySucceeded(idx))
    /\ [](\A k \in 1..Len(deployment_results) :
             deployment_results[k].deployed => ApplySucceeded(k))

\* the success observation of the cluster apply is in the sink although the
\* poll of the cluster timed out
C26_Witness ==
    /\ Len(deployment_results) >= 4
    /\ deployment_results[4].deployed
    /\ ~deployment_results[4].monitored
    /\ ApplySucceeded(4)
    /\ \E t \in 1..Len(telemetry) : telemetry[t] = Issue("cluster", "-timeout")

----------------------------------------------------------------------------
(* The engine over a telemetry sink that answers its queries *)

\* a step of the engine that queries the sink, for the answer memory_results
QueryStep(memory_results) ==
    \/ DeployOkWith(memory_results)
    \/ DeployFailWith(memory_results)
    \/ DeployFaultWith(memory_results)
    \/ MonitorStartWith(memory_results)

\* a step of the engine that makes no query of which the answer is read
SilentStep ==
    \/ CheckStatus
    \/ Sleep
    \/ RecordMonitored
    \/ Return
    \/ Exit
    \/ Crash

\* the engine when query_memory_before_action is backed by a sink whose
\* answers are chosen by the environment
NextAdvised ==
    \/ \E memory_results \in QueryAnswers : RunStartWith(memory_results)
    \/ \E memory_results \in QueryAnswers :
          QueryStep(memory_results) /\ HintLine(memory_results)
    \/ SilentStep

SpecAdvised == Init /\ [][NextAdvised]_vars

\* everything of a run but the hint lines: position, result log, stored
\* observations, apply and status calls, resolved timeout and the other
\* locals of the monitor, verdict and exit code
run_observables ==
    <<pc, idx, deployment_results, telemetry, applied, apply_returncode, polled,
      monitor_locals, success, exit_code>>

\* C27: the answers of the telemetry queries change nothing but the hint
\* lines: every step of a run over a sink that answers, whatever it answers,
\* is on the result log, the timeouts, the apply and status calls and the
\* verdict the step of the run over the empty sink for the same behaviour of
\* the control plane.
C27_QueryIsAdvisory ==
    [][\/ RunStartWith(NoEntities)
       \/ QueryStep(NoEntities)
       \/ SilentStep]_run_observables

\* a run that printed a hint line for the timing query of a poll that was
\* entered with the timeout of the cluster
C27_Witness ==
    /\ hint_printed
    /\ pc = "query"
    /\ resource_order[idx] = "cluster.yaml"
    /\ expected_time = ClusterTimeout

----------------------------------------------------------------------------
(* run_memory_guided_deployment called twice on one deployer *)

\* the ways a call of monitor_with_memory_updates ends: no sub-resource found
\* in the descriptor file, a sub-resource seen Ready, or the time budget used up
MonitorOutcomes == {"no_details", "ready", "timeout"}

\* a whole call of monitor_with_memory_updates, from its entry to its return
MonitorCall ==
    /\ pc = "monitor"
    /\ \E outcome \in MonitorOutcomes :
          /\ monitor_success' = (outcome # "timeout")
          /\ telemetry' =
                CASE outcome = "no_details" -> telemetry
                  [] outcome = "ready" ->
                        Append(telemetry,
                               SuccessPattern(ResourceType(resource_order[idx]), "-timing"))
                  [] outcome = "timeout" ->
                        Append(telemetry,
                               Issue(ResourceType(resource_order[idx]), "-timeout"))
          /\ polled' = IF outcome = "no_details" THEN polled ELSE polled \cup {idx}
    /\ HintLine(query_memory_before_action("provisioning time"))
    /\ pc' = "monitored"
    /\ UNCHANGED <<idx, deployment_results, applied, apply_returncode, expected_time,
                   resource_details, rd, last_status, since_start, latency, ticks,
                   queries, last_response, seen_message, line_printed, success,
                   exit_code>>
    /\ UNCHANGED <<validator_vars, suite_vars>>

\* the first call of run has returned
FirstCallReturned == pc = "returned" /\ Len(deployment_results) = Len(resource_order)

\* the caller calls run_memory_guided_deployment again on the same deployer:
\* self.deployment_results is set only by __init__ and keeps its entries
Rerun ==
    /\ FirstCallReturned
    /\ idx' = 1
    /\ pc' = "deploy"
    /\ UNCHANGED <<deployment_results, telemetry, applied, apply_returncode, polled,
                   monitor_locals, success, exit_code>>
    /\ UNCHANGED <<hint_printed, validator_vars, suite_vars>>

NextRerun ==
    \/ RunStart
    \/ DeployOk
    \/ DeployFail
    \/ DeployFault
    \/ MonitorCall
    \/ RecordMonitored
    \/ Return
    \/ Rerun
    \/ Exit
    \/ Crash

SpecRerun == Init /\ [][NextRerun]_vars

\* the second call of run has returned
SecondCallReturned == RunReturned /\ Len(deployment_results) = 2 * Len(resource_order)

\* C28: the verdict of the second call of run on one deployer is true
\* exactly when every resource was deployed in that call, that is when every
\* entry appended by that call has deployed=true.
C28_SecondVerdictIsOfSecondCall ==
    SecondCallReturned =>
        (success <=> \A k \in (Len(resource_order) + 1)..Len(deployment_results) :
                        deployment_results[k].deployed)

----------------------------------------------------------------------------
(* Further properties of the result log and of the monitor *)

\* C29: no entry of the result log has monitored=true with deployed=false.
C29_MonitoredImpliesDeployed ==
    \A k \in 1..Len(deployment_results) :
        deployment_results[k].monitored => deployment_results[k].deployed

\* a log that holds an entry of a failed apply, an entry of a poll that
\* returned True and an entry of a poll that returned False
C29_Witness ==
    /\ Len(deployment_results) >= 6
    /\ deployment_results[2] = DeploymentResult("identity.yaml", FALSE, FALSE)
    /\ deployment_results[4] = DeploymentResult("cluster.yaml", TRUE, TRUE)
    /\ deployment_results[6] = DeploymentResult("extension.yaml", TRUE, FALSE)
    /\ 4 \in polled

\* C30: the monitor returns True for a descriptor file with several
\* sub-resources only when the latest status query of every one of them
\* reported Ready.
C30_TrueOnlyWhenAllSubResourcesReady ==
    (MonitorReturned /\ monitor_success /\ Len(resource_details) > 1) =>
        \A k \in 1..Len(resource_details) :
            seen_message[resource_details[k].name] = "Succeeded"

----------------------------------------------------------------------------
(* Further properties of the cert-manager validator *)

\* C31: every check of the registry that has run has contributed exactly one
\* entry to the results list, so that the summary counts as many entries as
\* the registry has checks.
C31_OneEntryPerCheck ==
    /\ pc = "checks" => Len(results) = idx - 1
    /\ pc = "summary" \/ Validated => Len(results) = Len(checks)

----------------------------------------------------------------------------
(* check_cert_manager_pods called on its own, for any list of pods *)

\* a validator on which check_cert_manager_pods() is called; kubectl has
\* answered with JSON whose items are pod_items
InitPods ==
    /\ pc = "pods"
    /\ idx = 0
    /\ success = FALSE
    /\ exit_code = NoExit
    /\ DeployerIdle
    /\ results = <<>>
    /\ pod_items \in SeqsUpTo(Pods, MaxPods)
    /\ issuance = NoIssuance
    /\ SuiteIdle

\* the part of check_cert_manager_pods behind json.loads: the tuple is
\* appended, or the exception of a pod without phase leaves the method
CheckPods ==
    /\ pc = "pods"
    /\ results' = results \o check_cert_manager_pods(TRUE, pod_items).appended
    /\ pc' = IF check_cert_manager_pods(TRUE, pod_items).raised THEN "raised" ELSE "checked"
    /\ UNCHANGED <<idx, success, exit_code, pod_items, issuance, deployer_vars, suite_vars>>

NextPods == CheckPods

SpecPods == InitPods /\ [][NextPods]_vars

\* the expected component a pod of the answer belongs to
ComponentOf(name) ==
    CASE name = "cert-manager-7d9f"           -> "cert-manager"
      [] name = "cert-manager-webhook-5c8"    -> "cert-manager-webhook"
      [] name = "cert-manager-cainjector-6b4" -> "cert-manager-cainjector"
      [] OTHER                                -> None

\* some pod of the component is in phase Running
HasRunningPod(component) ==
    \E k \in 1..Len(pod_items) :
        /\ ComponentOf(pod_items[k].name) = component
        /\ pod_items[k].phase = "Running"

\* C32: check_cert_manager_pods records success only if each of the three
\* expected components has a pod in phase Running, and records failure
\* otherwise.
C32_SuccessNeedsEveryComponent ==
    pc = "checked" =>
        /\ Len(results) = 1
        /\ results[1].success <=>
              \A k \in 1..Len(expected_pods) : HasRunningPod(expected_pods[k])

----------------------------------------------------------------------------
(* IstioTestSuite.run_all_tests *)

\* the test methods of run_all_tests, in call order
tests == <<"control_plane_health", "sidecar_injection", "gateway_routing",
           "canary_routing", "destination_rules", "namespace_isolation",
           "mtls_configuration", "external_services", "observability",
           "performance_baseline">>

test_namespaces == <<"istio-demo", "istio-staging", "istio-production">>

\* the keys of self.test_domains, in insertion order
test_domains == <<"demo", "staging", "production">>

\* what a test method did: the outcomes it stored, the findings it stored,
\* and whether an exception left it
TestEffect(stored, found, raised) == [results |-> stored, findings |-> found, raised |-> raised]

\* a test method that stores one outcome under test_name or is left by an
\* exception of run_kubectl_cmd / json.loads before it stored anything
SingleOutcome(test_name) ==
    {TestEffect(<<TestResult(test_name, passed)>>, <<>>, FALSE) : passed \in BOOLEAN}
    \cup {TestEffect(<<>>, <<>>, TRUE)}

\* the outcomes of the first n passes of a loop that stores one outcome
\* prefix + target per pass
LoopOutcomes(prefix, targets, n, passes) ==
    [k \in 1..n |-> TestResult(prefix \o targets[k], passes[k])]

\* a test method that loops over targets and stores one outcome per pass;
\* an exception of run_kubectl_cmd / json.loads leaves it in any pass
LoopOfOutcomes(prefix, targets) ==
    {TestEffect(LoopOutcomes(prefix, targets, n, passes), <<>>, n < Len(targets)) :
        n \in 0..Len(targets), passes \in [1..Len(targets) -> BOOLEAN]}

\* test_control_plane_health
test_control_plane_health == SingleOutcome("control_plane_health")

\* test_sidecar_injection
test_sidecar_injection == LoopOfOutcomes("sidecar_injection_", test_namespaces)

\* test_gateway_routing: setup_port_forward can raise before the loop; inside
\* the loop every exception is caught and stored as a failed outcome
test_gateway_routing ==
    {TestEffect(LoopOutcomes("gateway_routing_", test_domains, Len(test_domains), passes),
                <<>>, FALSE) : passes \in [1..Len(test_domains) -> BOOLEAN]}
    \cup {TestEffect(<<>>, <<>>, TRUE)}

\* test_destination_rules
test_destination_rules == LoopOfOutcomes("destination_rule_", test_namespaces)

\* IsolationPass that rates a namespace without policies as CRITICAL
IsolationPass_Critical(namespace, has_policies) ==
    IF has_policies
    THEN TestEffect(<<TestResult("namespace_isolation_" \o namespace, TRUE)>>, <<>>, FALSE)
    ELSE TestEffect(<<TestResult("namespace_isolation_" \o namespace, FALSE)>>,
                    <<Finding("CRITICAL", "missing_authorization_policy",
                              NoPoliciesIn(namespace))>>, FALSE)

\* IsolationPass that stores the failed outcome without the finding
IsolationPass_SilentFailure(namespace, has_policies) ==
    TestEffect(<<TestResult("namespace_isolation_" \o namespace, has_policies)>>, <<>>, FALSE)

\* one pass of the loop of test_namespace_isolation: with policies a passed
\* outcome, without them a HIGH finding followed by a failed outcome
IsolationPass(namespace, has_policies) ==
    IF has_policies
    THEN TestEffect(<<TestResult("namespace_isolation_" \o namespace, TRUE)>>, <<>>, FALSE)
    ELSE TestEffect(<<TestResult("namespace_isolation_" \o namespace, FALSE)>>,
                    <<Finding("HIGH", "missing_authorization_policy",
                              NoPoliciesIn(namespace))>>, FALSE)

RECURSIVE IsolationLoop(_, _, _)
\* the passes k..n of the loop of test_namespace_isolation
IsolationLoop(k, n, has_policies) ==
    IF k > n THEN TestEffect(<<>>, <<>>, n < Len(test_namespaces))
    ELSE LET first == IsolationPass(test_namespaces[k], has_policies[k])
             rest  == IsolationLoop(k + 1, n, has_policies)
         IN  TestEffect(first.results \o rest.results, first.findings \o rest.findings,
                        rest.raised)

\* test_namespace_isolation: run_kubectl_cmd can raise in any pass
test_namespace_isolation ==
    {IsolationLoop(1, n, has_policies) :
        n \in 0..Len(test_namespaces),
        has_policies \in [1..Len(test_namespaces) -> BOOLEAN]}

\* test_mtls_configuration without the outcome of the mesh-level branch
test_mtls_configuration_Silent ==
    {TestEffect(<<TestResult("mtls_configuration", strict)>>, <<>>, FALSE) :
        strict \in BOOLEAN}
    \cup {TestEffect(<<>>, <<Finding("MEDIUM", "mtls_not_strict", MtlsNotStrict)>>, FALSE),
          TestEffect(<<>>, <<>>, TRUE)}

\* test_mtls_configuration: with PeerAuthentication policies the outcome is
\* strict_policies > 0; without them it is the mesh-level setting, with a
\* MEDIUM finding when that is not STRICT
test_mtls_configuration ==
    {TestEffect(<<TestResult("mtls_configuration", strict)>>, <<>>, FALSE) :
        strict \in BOOLEAN}
    \cup {TestEffect(<<TestResult("mtls_configuration", FALSE)>>,
                     <<Finding("MEDIUM", "mtls_not_strict", MtlsNotStrict)>>, FALSE),
          TestEffect(<<>>, <<>>, TRUE)}

\* test_external_services
test_external_services == SingleOutcome("external_services")

\* test_observability
test_observability == SingleOutcome("observability_metrics")

\* test_performance_baseline
test_performance_baseline == SingleOutcome("performance_baseline")

\* test_canary_routing: one outcome on each of its four branches (the
\* traffic check of CanaryPassed, no attributed response, no route, no
\* VirtualService), or an exception before any of them
test_canary_routing == SingleOutcome("canary_routing_demo")

\* IstioTestSuite() was constructed and run_all_tests is at its first test
InitSuite ==
    /\ pc = "tests"
    /\ idx = 1
    /\ success = FALSE
    /\ exit_code = NoExit
    /\ DeployerIdle
    /\ ValidatorIdle
    /\ SuiteIdle

\* one call of a test method by run_all_tests: its outcomes and findings are
\* stored; an exception leaves run_all_tests and main
RunTest(effect) ==
    /\ test_results' = test_results \o effect.results
    /\ security_findings' = security_findings \o effect.findings
    /\ IF effect.raised
       THEN pc' = "raised" /\ idx' = idx
       ELSE /\ idx' = idx + 1
            /\ pc' = IF idx < Len(tests) THEN "tests" ELSE "suite"
    /\ UNCHANGED <<success, exit_code, report, canary, deployer_vars, validator_vars>>

TestControlPlaneHealth ==
    /\ pc = "tests" /\ tests[idx] = "control_plane_health"
    /\ \E effect \in test_control_plane_health : RunTest(effect)

TestSidecarInjection ==
    /\ pc = "tests" /\ tests[idx] = "sidecar_injection"
    /\ \E effect \in test_sidecar_injection : RunTest(effect)

TestGatewayRouting ==
    /\ pc = "tests" /\ tests[idx] = "gateway_routing"
    /\ \E effect \in test_gateway_routing : RunTest(effect)

TestCanaryRouting ==
    /\ pc = "tests" /\ tests[idx] = "canary_routing"
    /\ \E effect \in test_canary_routing : RunTest(effect)

TestDestinationRules ==
    /\ pc = "tests" /\ tests[idx] = "destination_rules"
    /\ \E effect \in test_destination_rules : RunTest(effect)

TestNamespaceIsolation ==
    /\ pc = "tests" /\ tests[idx] = "namespace_isolation"
    /\ \E effect \in test_namespace_isolation : RunTest(effect)

TestMtlsConfiguration ==
    /\ pc = "tests" /\ tests[idx] = "mtls_configuration"
    /\ \E effect \in test_mtls_configuration : RunTest(effect)

TestExternalServices ==
    /\ pc = "tests" /\ tests[idx] = "external_services"
    /\ \E effect \in test_external_services : RunTest(effect)

TestObservability ==
    /\ pc = "tests" /\ tests[idx] = "observability"
    /\ \E effect \in test_observability : RunTest(effect)

TestPerformanceBaseline ==
    /\ pc = "tests" /\ tests[idx] = "performance_baseline"
    /\ \E effect \in test_performance_baseline : RunTest(effect)

\* `except Exception` around main(): sys.exit(2)
ExitFault ==
    /\ pc = "raised"
    /\ exit_code' = 2
    /\ pc' = "exited"
    /\ UNCHANGED <<idx, success, suite_vars, deployer_vars, validator_vars>>

NextSuite ==
    \/ TestControlPlaneHealth
    \/ TestSidecarInjection
    \/ TestGatewayRouting
    \/ TestCanaryRouting
    \/ TestDestinationRules
    \/ TestNamespaceIsolation
    \/ TestMtlsConfiguration
    \/ TestExternalServices
    \/ TestObservability
    \/ TestPerformanceBaseline
    \/ GenerateReport
    \/ ExitReport
    \/ ExitFault

SpecSuite == InitSuite /\ [][NextSuite]_vars

\* the test names of stored outcomes, in the order they were stored
TestNames(stored) == [k \in 1..Len(stored) |-> stored[k].test]

\* the names of the outcomes a test method stores when no exception leaves it
OutcomeNames(test) ==
    CASE test = "control_plane_health" -> <<"control_plane_health">>
      [] test = "sidecar_injection" ->
            [k \in 1..Len(test_namespaces) |-> "sidecar_injection_" \o test_namespaces[k]]
      [] test = "gateway_routing" ->
            [k \in 1..Len(test_domains) |-> "gateway_routing_" \o test_domains[k]]
      [] test = "canary_routing" -> <<"canary_routing_demo">>
      [] test = "destination_rules" ->
            [k \in 1..Len(test_namespaces) |-> "destination_rule_" \o test_namespaces[k]]
      [] test = "namespace_isolation" ->
            [k \in 1..Len(test_namespaces) |-> "namespace_isolation_" \o test_namespaces[k]]
      [] test = "mtls_configuration" -> <<"mtls_configuration">>
      [] test = "external_services" -> <<"external_services">>
      [] test = "observability" -> <<"observability_metrics">>
      [] test = "performance_baseline" -> <<"performance_baseline">>

RECURSIVE ExpectedNames(_)
\* the names of the outcomes of the first n test methods
ExpectedNames(n) ==
    IF n = 0 THEN <<>> ELSE ExpectedNames(n - 1) \o OutcomeNames(tests[n])

\* C33: as long as no test raises, every test method that has run has stored
\* its outcomes, one per target and in the order of the targets; when
\* run_all_tests reaches its report it has stored exactly 18 outcomes.
C33_EighteenOutcomesInOrder ==
    /\ pc = "tests" => TestNames(test_results) = ExpectedNames(idx - 1)
    /\ (pc \in {"suite", "reported"} \/ Reported) =>
          /\ TestNames(test_results) = ExpectedNames(Len(tests))
          /\ Len(test_results) = 18
          /\ Reported => report.total_tests = 18

\* a report over 18 outcomes of which the mesh-level mTLS outcome failed and
\* the canary outcome passed
C33_Witness ==
    /\ Reported
    /\ Len(test_results) = 18
    /\ test_results[8] = TestResult("canary_routing_demo", TRUE)
    /\ test_results[15] = TestResult("mtls_configuration", FALSE)
    /\ \E k \in 1..Len(security_findings) : security_findings[k].severity = "MEDIUM"

\* C34: every finding stored through run_all_tests has severity HIGH or
\* MEDIUM, so no report of run_all_tests counts a CRITICAL finding and its
\* overall_status is PASS exactly when at least 80% of the outcomes passed.
C34_NoCriticalFindingInRun ==
    /\ \A k \in 1..Len(security_findings) :
          security_findings[k].severity \in {"HIGH", "MEDIUM"}
    /\ Reported =>
          /\ report.critical_security_issues = 0
          /\ report.overall_status = "PASS"
                <=> 5 * PassedTests(test_results) >= 4 * Len(test_results)

\* a report of run_all_tests with three HIGH findings and one MEDIUM finding
\* that is FAIL because 14 of 18 outcomes passed
C34_Witness ==
    /\ Reported
    /\ Len(security_findings) = 4
    /\ PassedTests(test_results) = 14
    /\ report.overall_status = "FAIL"

\* C35: no report has overall_status PASS together with a security
\* risk_level of HIGH or CRITICAL.
C35_PassExcludesHighRisk ==
    Reported =>
        ~(report.overall_status = "PASS" /\ report.risk_level \in {"HIGH", "CRITICAL"})

----------------------------------------------------------------------------
(* CertManagerValidator.test_certificate_issuance called on its own *)

\* the default of the parameter timeout_seconds, and time.sleep(10)
timeout_seconds == 300

SleepSeconds == 10

\* what the jsonpath query of the Ready condition can print, None for a
\* command that ended with a non-zero return code
ReadyAnswers == {"True", "False", "", None}

\* what `kubectl describe certificate` can print, None as above
DescribeAnswers == {"Error", "Issuing", None}

\* a validator on which test_certificate_issuance() is called
InitIssuance ==
    /\ pc = "apply"
    /\ idx = 0
    /\ success = FALSE
    /\ exit_code = NoExit
    /\ DeployerIdle
    /\ ValidatorIdle
    /\ SuiteIdle

\* `kubectl apply -f /tmp/<test_name>.yaml`: a non-zero return code makes
\* run_kubectl return None and the test return False; otherwise start_time
\* is taken
ApplyCertificate ==
    /\ pc = "apply"
    /\ \E returncode \in {0, 1} :
          /\ pc' = IF returncode = 0 THEN "waiting" ELSE "returned"
          /\ issuance' = [issuance EXCEPT !.created = (returncode = 0)]
    /\ success' = FALSE
    /\ UNCHANGED <<idx, exit_code, results, pod_items, deployer_vars, suite_vars>>

\* the while test passed and the Ready condition is queried
GetCertificate ==
    /\ pc = "waiting"
    /\ issuance.elapsed < timeout_seconds
    /\ \E stdout \in ReadyAnswers :
          /\ issuance' = [issuance EXCEPT !.ready = (stdout = "True")]
          /\ pc' = IF stdout = "True" THEN "ready" ELSE "describe"
    /\ UNCHANGED <<idx, success, exit_code, results, pod_items, deployer_vars, suite_vars>>

\* the answer was not True: breaks out of the loop when the description
\* holds "Error", goes on to the next tick of the loop otherwise
DescribeCertificate_ReturnOnError ==
    /\ pc = "describe"
    /\ \E stdout \in DescribeAnswers, seconds \in Latencies :
          IF stdout = "Error"
          THEN /\ pc' = "returned"
               /\ UNCHANGED issuance
          ELSE /\ pc' = "waiting"
               /\ issuance' = [issuance EXCEPT !.elapsed = @ + SleepSeconds + seconds]
    /\ UNCHANGED <<idx, success, exit_code, results, pod_items, deployer_vars, suite_vars>>

DescribeCertificate ==
    /\ pc = "describe"
    /\ \E stdout \in DescribeAnswers, seconds \in Latencies :
          IF stdout = "Error"
          THEN /\ pc' = "cleanup"
               /\ UNCHANGED issuance
          ELSE /\ pc' = "waiting"
               /\ issuance' = [issuance EXCEPT !.elapsed = @ + SleepSeconds + seconds]
    /\ UNCHANGED <<idx, success, exit_code, results, pod_items, deployer_vars, suite_vars>>

\* the while test failed: the budget is used up
BudgetUsedUp ==
    /\ pc = "waiting"
    /\ issuance.elapsed >= timeout_seconds
    /\ pc' = "cleanup"
    /\ UNCHANGED <<idx, success, exit_code, validator_vars, deployer_vars, suite_vars>>

\* `kubectl delete certificate` with check=False, the tuple and the return,
\* inside the loop after a True answer and behind the loop otherwise
DeleteCertificate ==
    /\ pc \in {"ready", "cleanup"}
    /\ issuance' = [issuance EXCEPT !.deletes = @ + 1]
    /\ results' = Append(results, Recorded("Certificate Issuance Test", pc = "ready"))
    /\ success' = (pc = "ready")
    /\ pc' = "returned"
    /\ UNCHANGED <<idx, exit_code, pod_items, deployer_vars, suite_vars>>

\* subprocess.run raises something else than CalledProcessError in one of the
\* commands: the exception leaves the test; a delete that raised may or may
\* not have been carried out
IssuanceFault ==
    /\ \/ pc \in {"apply", "describe", "ready", "cleanup"}
       \/ pc = "waiting" /\ issuance.elapsed < timeout_seconds
    /\ \E carried_out \in BOOLEAN :
          issuance' = [issuance EXCEPT !.deletes =
                          IF pc \in {"ready", "cleanup"} /\ carried_out THEN @ + 1 ELSE @]
    /\ pc' = "raised"
    /\ UNCHANGED <<idx, success, exit_code, results, pod_items, deployer_vars, suite_vars>>

NextIssuance ==
    \/ ApplyCertificate
    \/ GetCertificate
    \/ DescribeCertificate
    \/ BudgetUsedUp
    \/ DeleteCertificate
    \/ IssuanceFault

SpecIssuance == InitIssuance /\ [][NextIssuance]_vars

\* C36: once the test certificate was applied, nothing is deleted or
\* recorded while the test waits, and a test that returned (certificate
\* ready, error found by describe, or timeout) has issued exactly one delete
\* and appended exactly one 'Certificate Issuance Test' outcome, true exactly
\* when the last Ready answer was True.
C36_OneDeleteOneOutcomePerExit ==
    /\ pc \in {"waiting", "describe", "ready", "cleanup"} =>
          /\ issuance.created
          /\ issuance.deletes = 0
          /\ results = <<>>
    /\ (pc = "returned" /\ issuance.created) =>
          /\ issuance.deletes = 1
          /\ results = <<Recorded("Certificate Issuance Test", issuance.ready)>>
          /\ success = issuance.ready

\* the test returned through the break of the error branch, after it had
\* slept at least once and before the budget was used up
C36_Witness ==
    /\ pc = "returned"
    /\ issuance.created
    /\ ~issuance.ready
    /\ issuance.deletes = 1
    /\ issuance.elapsed > 0
    /\ issuance.elapsed < timeout_seconds
    /\ results = <<Recorded("Certificate Issuance Test", FALSE)>>

\* the outcome name and the finding description of each tested namespace
IsolationNames ==
    [n \in 1..Len(test_namespaces) |-> "namespace_isolation_" \o test_namespaces[n]]

IsolationDescriptions ==
    [n \in 1..Len(test_namespaces) |-> NoPoliciesIn(test_namespaces[n])]

\* the positions of the outcomes stored for the isolation of the n-th namespace
IsolationOutcomes(n) ==
    {k \in 1..Len(test_results) : test_results[k].test = IsolationNames[n]}

\* the positions of the missing_authorization_policy findings
PolicyFindings ==
    {k \in 1..Len(security_findings) :
        security_findings[k].type = "missing_authorization_policy"}

\* run_all_tests is past test_namespace_isolation
IsolationTested ==
    \/ pc = "tests" /\ \E k \in 1..(idx - 1) : tests[k] = "namespace_isolation"
    \/ pc = "suite"
    \/ Reported

\* C37: a namespace has at most one isolation outcome, and exactly one once
\* test_namespace_isolation has returned; it has a missing_authorization_policy
\* finding, which is HIGH, exactly when that outcome is failed, so that the
\* number of such findings equals the number of failed isolation outcomes.
C37_FindingIffIsolationFailed ==
    /\ \A n \in 1..Len(test_namespaces) :
          LET outcomes == IsolationOutcomes(n)
              findings == {k \in PolicyFindings :
                              security_findings[k].description = IsolationDescriptions[n]}
              failed   == {k \in outcomes : ~test_results[k].passed}
          IN  /\ Cardinality(outcomes) <= 1
              /\ IsolationTested => Cardinality(outcomes) = 1
              /\ Cardinality(findings) = Cardinality(failed)
    /\ \A k \in PolicyFindings :
          /\ security_findings[k].severity = "HIGH"
          /\ \E n \in 1..Len(test_namespaces) :
                security_findings[k].description = IsolationDescriptions[n]
    /\ Cardinality(PolicyFindings)
          = Cardinality({k \in 1..Len(test_results) :
                            /\ ~test_results[k].passed
                            /\ \E n \in 1..Len(test_namespaces) :
                                  test_results[k].test = IsolationNames[n]})

\* a report after a run in which istio-staging alone had policies
C37_Witness ==
    /\ Reported
    /\ Cardinality(PolicyFindings) = 2
    /\ \E k \in IsolationOutcomes(2) : test_results[k].passed
    /\ \E k \in IsolationOutcomes(1) : ~test_results[k].passed
    /\ \E k \in IsolationOutcomes(3) : ~test_results[k].passed

----------------------------------------------------------------------------
(* Further properties of the Istio report *)

\* the number of stored findings of a severity
CountOf(severity) ==
    Cardinality({k \in 1..Len(security_findings) :
                    security_findings[k].severity = severity})

\* the weights of the stored findings, summed up by severity
WeightSum ==
    40 * CountOf("CRITICAL") + 20 * CountOf("HIGH") + 10 * CountOf("MEDIUM")
        + 5 * CountOf("LOW")

\* the order of the risk levels
RiskRank(level) ==
    CASE level = "LOW"      -> 1
      [] level = "MEDIUM"   -> 2
      [] level = "HIGH"     -> 3
      [] level = "CRITICAL" -> 4

\* C38: the risk level of the report is CRITICAL for a weight sum of at
\* least 100, HIGH for at least 60, MEDIUM for at least 30 and LOW below,
\* where a finding weighs 40 (CRITICAL), 20 (HIGH), 10 (MEDIUM), 5 (LOW) or 0
\* (any other severity); and no finding lowered the level when it was added
\* to the findings stored before it.
C38_RiskLevelByWeightSum ==
    /\ Reported =>
          report.risk_level =
              IF WeightSum >= 100 THEN "CRITICAL"
              ELSE IF WeightSum >= 60 THEN "HIGH"
              ELSE IF WeightSum >= 30 THEN "MEDIUM"
              ELSE "LOW"
    /\ \A k \in 1..Len(security_findings) :
          RiskRank(calculate_risk_level(SubSeq(security_findings, 1, k - 1)))
              <= RiskRank(calculate_risk_level(SubSeq(security_findings, 1, k)))

\* a report over a CRITICAL, a HIGH and an unknown severity: the sum is
\* exactly 60 and the level is HIGH
C38_Witness ==
    /\ Reported
    /\ Len(security_findings) = 3
    /\ CountOf("CRITICAL") = 1
    /\ CountOf("HIGH") = 1
    /\ CountOf("INFO") = 1
    /\ report.risk_level = "HIGH"

----------------------------------------------------------------------------
(* The traffic-weight check of test_canary_routing *)

\* total_requests = 50
total_requests == 50

\* the weights a VirtualService gives to the subsets v1 and v2, after
\* weights.get('v1', 90) and weights.get('v2', 10)
CanaryWeights == {0, 8, 10, 35, 36, 65, 78, 90, 100}

\* count / total_successful * 100 in IEEE 754 double arithmetic, compared
\* with the exact quotient: 1 when the double is above it, -1 when it is
\* below, 0 when it is the exact value. Listed for every quotient with
\* total_successful <= 50 whose exact value is an integer; a quotient that
\* is not an integer is further from every integer than its rounding error
Rounding(count, total_successful) ==
    CASE <<count, total_successful>> \in {<<11, 20>>, <<7, 25>>, <<14, 25>>, <<22, 40>>,
                                          <<7, 50>>, <<14, 50>>, <<28, 50>>} -> 1
      [] <<count, total_successful>> = <<29, 50>> -> -1
      [] OTHER -> 0

\* |x|
Abs(x) == IF x < 0 THEN -x ELSE x

\* abs(count / total_successful * 100 - expected) <= 20 as the doubles
\* decide it: away from the boundary as the exact values do, on the boundary
\* by the direction of the rounding error
within_range(count, total_successful, expected) ==
    LET distance == 100 * count - expected * total_successful
    IN  IF Abs(distance) < 20 * total_successful THEN TRUE
        ELSE IF Abs(distance) > 20 * total_successful THEN FALSE
        ELSE IF distance > 0 THEN Rounding(count, total_successful) <= 0
        ELSE Rounding(count, total_successful) >= 0

\* the value of `passed` stored by the branches behind the request loop
canary_passed(c) ==
    LET total_successful == c.v1 + c.v2
    IN  /\ total_successful > 0
        /\ \/ within_range(c.v1, total_successful, c.expected_v1)
           \/ within_range(c.v2, total_successful, c.expected_v2)

\* test_canary_routing behind its request loop, for any counts of responses
\* attributed to v1 and v2 and any configured weights
InitCanary ==
    /\ pc = "canary"
    /\ idx = 0
    /\ success = FALSE
    /\ exit_code = NoExit
    /\ DeployerIdle
    /\ ValidatorIdle
    /\ test_results = <<>>
    /\ security_findings = <<>>
    /\ report = NoReport
    /\ canary \in {c \in [v1 : 0..total_requests, v2 : 0..total_requests,
                          expected_v1 : CanaryWeights, expected_v2 : CanaryWeights] :
                      c.v1 + c.v2 <= total_requests}

\* the comparison with the weights and store_test_result
CheckDistribution ==
    /\ pc = "canary"
    /\ test_results' = Append(test_results,
                              TestResult("canary_routing_demo", canary_passed(canary)))
    /\ pc' = "checked"
    /\ UNCHANGED <<idx, success, exit_code, security_findings, report, canary,
                   deployer_vars, validator_vars>>

NextCanary == CheckDistribution

SpecCanary == InitCanary /\ [][NextCanary]_vars

\* the observed share of a variant is within 20 points of its weight
ShareWithinBand(count, total_successful, expected) ==
    Abs(100 * count - expected * total_successful) <= 20 * total_successful

\* C39: the canary check passes exactly when some response was attributed to
\* v1 or v2 and the share of at least one of the two variants is within 20
\* points of its configured weight; with weights that sum to 100, one
\* variant is within the band exactly when the other one is.
C39_PassIffAVariantWithinBand ==
    pc = "checked" =>
        LET total_successful == canary.v1 + canary.v2
            v1_within == ShareWithinBand(canary.v1, total_successful, canary.expected_v1)
            v2_within == ShareWithinBand(canary.v2, total_successful, canary.expected_v2)
        IN  /\ test_results[1].passed <=> (total_successful > 0 /\ (v1_within \/ v2_within))
            /\ (total_successful > 0 /\ canary.expected_v1 + canary.expected_v2 = 100)
                  => (v1_within <=> v2_within)

====
